---------------------------- MODULE Spec2Model ----------------------------
(***************************************************************************)
(* A model of the UCG pipeline of provis (src/src/provis/ucg): the parser  *)
(* registry's ordered sliding window, the DFG builder's SSA-lite walker,   *)
(* the normalizer's scope stack, the columnar store's verified flush and   *)
(* publish, and the orchestrator loop of build_ucg_for_files.              *)
(*                                                                         *)
(* Every subsystem has its own variables, initial predicate and next-state *)
(* relation; a specification of one subsystem keeps the others idle.       *)
(***************************************************************************)
EXTENDS Integers, Sequences, FiniteSets, TLC

VARIABLES
    \* ---- parser_registry.ParserRegistry.parse_files ----
    files,          \* the input iterable, a sequence of FileMeta records
    task,           \* pool future per submission index: none/queued/running/done
    result,         \* the ParseStream a finished worker returned, per index
    pending,        \* keys of the `pending` dict (fm_by_idx/driver_by_idx share them)
    next_submit,
    next_yield,
    it,             \* how many inputs enumerate(files) has handed out
    rpc,            \* position of the generator
    elapsed,        \* ticks waited on the current future (perf_counter - start_wait)
    yielded,        \* ParseStreams yielded so far, in order
    sink,           \* anomalies emitted to the AnomalySink, in order
    finished,       \* submission indices in the order their workers completed
    \* ---- dfg.DfgBuilder.build over one event stream ----
    dOpen,          \* the driver's open constructs (the CST path of the walk)
    dPos,           \* events delivered so far; the byte_start of the next event
    func_stack,     \* the builder's stack of _FuncState
    dfgNodes,       \* ("dfg_node", DfgNodeRow) rows yielded, in order
    dfgEdges,       \* ("dfg_edge", DfgEdgeRow) rows yielded, in order
    dAnoms,         \* MEMORY_LIMIT anomalies the builder emitted
    \* ---- normalize.Normalizer.normalize over one event stream ----
    nOpen,          \* the driver's open CST nodes (the path of the walk)
    nPos,           \* events delivered so far; the next fresh byte_start
    scope_stack,    \* the normalizer's stack of _Scope
    pend_stack,     \* the normalizer's stack of _PendingConstruct
    module_emitted,
    pending_decorators, \* decorators that found no open scope to decorate
    nNodes,         \* ("node", NodeRow) rows yielded, in order
    nEdges,         \* ("edge", EdgeRow) rows yielded, in order
    nAnoms,         \* anomalies the normalizer emitted
    nRun,           \* run: consuming events; done: generator exhausted; aborted: early return
    nOpened,        \* node ids of the scopes pushed on scope_stack, in order
    \* ---- ucg_store.UcgStore ----
    store,          \* the UcgStore object: buffers, counters, the staging directory
    raised,         \* the exception the last store call raised, NoRaise if none
    next_row,       \* rows handed to the store so far (each row is new)
    out_dir,        \* the published directory: absent, old (an earlier run) or new
    backup,         \* out_dir + ".bak": absent, stale (left by an earlier run) or old
    pub,            \* position of finalize/_atomic_publish
    \* ---- api.build_ucg_for_files ----
    api_pc,         \* position of the orchestrator
    api_files,      \* len(files_sorted)
    api_i,          \* the loop index i of the file being processed
    api_bufs,       \* node_edge_buf and dfg_buf, by builder
    api_sink,       \* anomalies emitted to the run's AnomalySink (a count)
    write_failed,   \* a store call of this run raised a write failure
    late_work,      \* builders started after a write failure
    \* ---- cfg.CfgBuilder.build over one event stream ----
    cOpen,          \* the driver's open constructs (the CST path of the walk)
    cPos,           \* the byte offset the walk has reached
    cfg,            \* the builder: func_stack, the rows yielded, the anomalies
    cRun,           \* run: consuming events; done: generator exhausted
    \* ---- symbols.build_symbols over one event stream ----
    sOpen,          \* the driver's open CST nodes (the path of the walk)
    sPos,           \* events delivered so far; the next fresh byte_start
    symst,          \* the _BuildState, the rows yielded, the anomalies
    sRun,           \* run: consuming events; done: exhausted; raised: IndexError
    \* ---- event validation in front of the normalizer ----
    vIn,            \* the events the driver produces for one file
    validate_events, \* ParserConfig.validate_events: the registry's wrapper is in place
    vPos,           \* events read so far
    vOut,           \* the events processed, the anomalies, the ParserError raised
    \* ---- api.build_ucg_for_files, the per-file loop ----
    run,            \* the state of one call, see NewRun
    \* ---- AnomalySink under concurrent callers ----
    snk,            \* the sink object, see NewSink
    sthr,           \* per thread: position in its sink call and emits made
    \* ---- ucg_store._AdaptiveRowBuffer: one table buffer ----
    rbuf            \* the buffer (cols, _last_check) with the rows added since the last size check

regVars == <<files, task, result, pending, next_submit, next_yield, it, rpc,
             elapsed, yielded, sink, finished>>

dfgVars == <<dOpen, dPos, func_stack, dfgNodes, dfgEdges, dAnoms>>

normVars == <<nOpen, nPos, scope_stack, pend_stack, module_emitted,
              pending_decorators, nNodes, nEdges, nAnoms, nRun, nOpened>>

storeVars == <<store, raised, next_row, out_dir, backup, pub>>

apiVars == <<api_pc, api_files, api_i, api_bufs, api_sink, write_failed, late_work>>

cfgVars == <<cOpen, cPos, cfg, cRun>>

symVars == <<sOpen, sPos, symst, sRun>>

valVars == <<vIn, validate_events, vPos, vOut>>

runVars == <<run>>

sinkVars == <<snk, sthr>>

bufVars == <<rbuf>>

vars == <<regVars, dfgVars, normVars, storeVars, apiVars, cfgVars, symVars, valVars, runVars, sinkVars, bufVars>>

\* What each subsystem leaves alone.
regOthers == <<dfgVars, normVars, storeVars, apiVars, cfgVars, symVars, valVars, runVars, sinkVars, bufVars>>

dfgOthers == <<regVars, normVars, storeVars, apiVars, cfgVars, symVars, valVars, runVars, sinkVars, bufVars>>

normOthers == <<regVars, dfgVars, storeVars, apiVars, cfgVars, symVars, valVars, runVars, sinkVars, bufVars>>

storeOthers == <<regVars, dfgVars, normVars, cfgVars, symVars, valVars, runVars, sinkVars, bufVars>>

apiOthers == <<regVars, dfgVars, normVars, cfgVars, symVars, valVars, runVars, sinkVars, bufVars>>

cfgOthers == <<regVars, dfgVars, normVars, storeVars, apiVars, symVars, valVars, runVars, sinkVars, bufVars>>

symOthers == <<regVars, dfgVars, normVars, storeVars, apiVars, cfgVars, valVars, runVars, sinkVars, bufVars>>

valOthers == <<regVars, dfgVars, normVars, storeVars, apiVars, cfgVars, symVars, runVars, sinkVars, bufVars>>

runOthers == <<regVars, dfgVars, normVars, storeVars, apiVars, cfgVars, symVars, valVars, sinkVars, bufVars>>

sinkOthers == <<regVars, dfgVars, normVars, storeVars, apiVars, cfgVars, symVars, valVars, runVars, bufVars>>

bufOthers == <<regVars, dfgVars, normVars, storeVars, apiVars, cfgVars, symVars, valVars, runVars, sinkVars>>

-----------------------------------------------------------------------------
\* Small helpers

Range(s) == {s[i] : i \in 1..Len(s)}

Min(a, b) == IF a < b THEN a ELSE b

\* The element of a one-element set: {e(x) : x \in {v}} computes v once and
\* hands it to e.
Only(S) == CHOOSE x \in S : TRUE

Max(a, b) == IF a > b THEN a ELSE b

-----------------------------------------------------------------------------
(***************************************************************************)
(* Parser registry: parse_files                                            *)
(***************************************************************************)

\* Bounds of the registry model
MaxFiles == 3

MaxWorkers == 2

TimeoutTicks == 2

Langs == {"py", "unknown"}

\* FileMeta: path and blob_sha identify the file; lang selects the driver.
FileMeta(i, lang) == [path |-> i, blob_sha |-> 100 + i, lang |-> lang]

FileSeqs ==
    UNION {[1..n -> Langs] : n \in 0..MaxFiles}

\* _resolve_driver: a driver exists only for an enabled, known language.
HasDriver(fm) == fm.lang = "py"

\* Anomaly records as the registry builds them.
Anomaly(fm, kind) == [path |-> fm.path, blob_sha |-> fm.blob_sha, kind |-> kind]

\* ParseStream records.
ParseStream(fm, ok, events, error) ==
    [file |-> fm, ok |-> ok, events |-> events, error |-> error]

NoDriverResult(fm) == ParseStream(fm, FALSE, "none", "no-driver")

\* A timeout result built from a placeholder instead of the real FileMeta.
TimeoutPlaceholder(fm) ==
    ParseStream([path |-> 0, blob_sha |-> 0, lang |-> "none"], FALSE, "none", "timeout")

TimeoutResult(fm) == ParseStream(fm, FALSE, "none", "timeout")

NoResult == [file |-> [path |-> 0, blob_sha |-> 0, lang |-> "none"],
             ok |-> FALSE, events |-> "none", error |-> "unset"]

\* Number of pool threads busy with a task.
Running == Cardinality({i \in DOMAIN task : task[i] = "running"})

\* The window refill loop `while len(pending) < max_workers: next(it); _submit`.
\* It submits inputs it+1 .. it+k in order; _submit resolves the driver (which
\* emits LANG_UNKNOWN for a file without one) and queues the task on the pool.
RefillCount(pend, consumed) ==
    Min(Max(MaxWorkers - Cardinality(pend), 0), Len(files) - consumed)

RECURSIVE SubmitAnomalies(_, _)
SubmitAnomalies(from, k) ==
    IF k = 0 THEN <<>>
    ELSE (IF HasDriver(files[from]) THEN <<>>
          ELSE <<Anomaly(files[from], "LANG_UNKNOWN")>>)
         \o SubmitAnomalies(from + 1, k - 1)

Refill(pend, consumed) ==
    LET k == RefillCount(pend, consumed)
        new == (consumed + 1)..(consumed + k)
    IN  /\ pending' = pend \cup new
        /\ it' = consumed + k
        /\ next_submit' = IF k > 0 THEN consumed + k ELSE next_submit
        /\ task' = [i \in DOMAIN task |-> IF i \in new THEN "queued" ELSE task[i]]
        /\ sink' = sink \o SubmitAnomalies(consumed + 1, k)

RegInit ==
    /\ files \in {[i \in DOMAIN ls |-> FileMeta(i, ls[i])] : ls \in FileSeqs}
    /\ task = [i \in 1..Len(files) |-> "none"]
    /\ result = [i \in 1..Len(files) |-> NoResult]
    /\ pending = {}
    /\ next_submit = 0
    /\ next_yield = 0
    /\ it = 0
    /\ rpc = "fill"
    /\ elapsed = 0
    /\ yielded = <<>>
    /\ sink = <<>>
    /\ finished = <<>>

\* Lines 203-210: fill the initial window.
RegFill ==
    /\ UNCHANGED regOthers
    /\ rpc = "fill"
    /\ Refill(pending, it)
    /\ rpc' = "drain"
    /\ UNCHANGED <<files, result, next_yield, elapsed, yielded, finished>>

\* Lines 213-237: top of the drain loop. Indices are 0-based in the code and
\* 1-based here: the future awaited is the one of input next_yield + 1.
RegDrainTop ==
    /\ UNCHANGED regOthers
    /\ rpc = "drain"
    /\ IF pending = {} /\ next_submit = next_yield
       THEN /\ rpc' = "shutdown"
            /\ UNCHANGED <<pending, it, next_submit, task, sink, elapsed>>
       ELSE IF (next_yield + 1) \notin pending
            THEN \* ensure-loop, then sleep and retry when still missing
                 /\ Refill(pending, it)
                 /\ rpc' = "drain"
                 /\ UNCHANGED elapsed
            ELSE /\ rpc' = "poll"
                 /\ elapsed' = 0
                 /\ UNCHANGED <<pending, it, next_submit, task, sink>>
    /\ UNCHANGED <<files, result, next_yield, yielded, finished>>

\* A registry that hands out whichever worker completed last (as_completed order).
YieldLastFinished(i) == result[finished[Len(finished)]]

\* What the registry yields for the awaited future once it is done: fut.result().
YieldDone(i) == result[i]

\* Lines 238-280: one turn of the poll loop on the future of input next_yield+1.
RegPoll ==
    /\ UNCHANGED regOthers
    /\ rpc = "poll"
    /\ LET i == next_yield + 1 IN
       IF task[i] = "done"
       THEN \* future finished: yield its result
            /\ yielded' = Append(yielded, YieldDone(i))
            /\ pending' = pending \ {i}
            /\ next_yield' = next_yield + 1
            /\ rpc' = "refill"
            /\ UNCHANGED <<sink, elapsed>>
       ELSE IF elapsed >= TimeoutTicks
            THEN \* wall-time budget used up: TIMEOUT anomaly and a timeout result
                 /\ sink' = Append(sink, Anomaly(files[i], "TIMEOUT"))
                 /\ yielded' = Append(yielded, TimeoutResult(files[i]))
                 /\ pending' = pending \ {i}
                 /\ next_yield' = next_yield + 1
                 /\ rpc' = "refill"
                 /\ UNCHANGED elapsed
            ELSE \* time.sleep(0.005): the clock moves on
                 /\ \E e \in (elapsed + 1)..TimeoutTicks : elapsed' = e
                 /\ UNCHANGED <<sink, yielded, pending, next_yield, rpc>>
    /\ UNCHANGED <<files, task, result, next_submit, it, finished>>

\* Lines 282-289: refill the window after the consumer resumed the generator.
RegRefill ==
    /\ UNCHANGED regOthers
    /\ rpc = "refill"
    /\ Refill(pending, it)
    /\ rpc' = "drain"
    /\ UNCHANGED <<files, result, next_yield, elapsed, yielded, finished>>

\* Leaving `with ThreadPoolExecutor(...)`: shutdown(wait=True) returns once every
\* submitted task has run to completion.
RegShutdown ==
    /\ UNCHANGED regOthers
    /\ rpc = "shutdown"
    /\ \A i \in DOMAIN task : task[i] \in {"none", "done"}
    /\ rpc' = "done"
    /\ UNCHANGED <<files, task, result, pending, next_submit, next_yield, it,
                   elapsed, yielded, sink, finished>>

\* A free pool thread takes the oldest queued task.
WorkerStart(i) ==
    /\ UNCHANGED regOthers
    /\ task[i] = "queued"
    /\ \A j \in DOMAIN task : j < i => task[j] # "queued"
    /\ Running < MaxWorkers
    /\ task' = [task EXCEPT ![i] = "running"]
    /\ UNCHANGED <<files, result, pending, next_submit, next_yield, it, rpc,
                   elapsed, yielded, sink, finished>>

\* _parse_one / _no_driver_result running on a pool thread.
WorkerFinish(i) ==
    /\ UNCHANGED regOthers
    /\ task[i] = "running"
    /\ task' = [task EXCEPT ![i] = "done"]
    /\ finished' = Append(finished, i)
    /\ IF ~HasDriver(files[i])
       THEN /\ result' = [result EXCEPT ![i] = NoDriverResult(files[i])]
            /\ UNCHANGED sink
       ELSE \/ /\ result' = [result EXCEPT ![i] = ParseStream(files[i], TRUE, "stream", "")]
               /\ UNCHANGED sink
            \/ /\ result' = [result EXCEPT ![i] =
                                ParseStream(files[i], FALSE, "none", "parse-error")]
               /\ sink' = Append(sink, Anomaly(files[i], "PARSE_FAILED"))
    /\ UNCHANGED <<files, pending, next_submit, next_yield, it, rpc, elapsed, yielded>>

\* The registry idle: no input, generator not started.
RegIdle ==
    /\ files = <<>>
    /\ task = <<>>
    /\ result = <<>>
    /\ pending = {}
    /\ next_submit = 0
    /\ next_yield = 0
    /\ it = 0
    /\ rpc = "idle"
    /\ elapsed = 0
    /\ yielded = <<>>
    /\ sink = <<>>
    /\ finished = <<>>

\* C1: parse_files yields in input order: the k-th ParseStream yielded is for the
\* k-th input file under every interleaving of worker completions and timeouts,
\* no file is yielded twice, and when the drain loop is left exactly one
\* ParseStream per input file has been yielded.
C1_InputOrder ==
    /\ Len(yielded) <= Len(files)
    /\ Len(yielded) = next_yield
    /\ \A k \in 1..Len(yielded) : yielded[k].file = files[k]
    /\ rpc \in {"shutdown", "done"} => Len(yielded) = Len(files)

\* A run in which a later file finished before an earlier one, a file yielded as
\* timed out had its worker complete afterwards, and the generator finished.
C1_Witness ==
    /\ rpc = "done"
    /\ Len(files) >= 2
    /\ \E a, b \in 1..Len(finished) : a < b /\ finished[a] > finished[b]
    /\ \E k \in 1..Len(yielded) : yielded[k].error = "timeout" /\ task[k] = "done"

TimeoutAnomalies(fm) ==
    {a \in 1..Len(sink) : sink[a] = Anomaly(fm, "TIMEOUT")}

\* C2: a file whose worker is not done when the wall-time budget is used up gets
\* exactly one TIMEOUT anomaly with its own path and blob_sha and a ParseStream
\* with ok=False, events=None, error "timeout"; TIMEOUT anomalies exist only for
\* such files; and the registry still yields a result for every later file.
C2_TimeoutContract ==
    /\ \A k \in 1..Len(yielded) :
          yielded[k].error = "timeout" =>
             /\ yielded[k] = [file |-> files[k], ok |-> FALSE,
                              events |-> "none", error |-> "timeout"]
             /\ Cardinality(TimeoutAnomalies(files[k])) = 1
    /\ \A a \in 1..Len(sink) :
          sink[a].kind = "TIMEOUT" =>
             \E k \in 1..Len(yielded) :
                /\ yielded[k].error = "timeout"
                /\ sink[a] = Anomaly(files[k], "TIMEOUT")
    /\ (rpc = "poll" /\ task[next_yield + 1] # "done") => elapsed <= TimeoutTicks
    /\ rpc \in {"shutdown", "done"} => Len(yielded) = Len(files)

\* A timed-out file followed by a later file that was yielded with its events.
C2_Witness ==
    \E k, m \in 1..Len(yielded) :
        /\ k < m
        /\ yielded[k].error = "timeout"
        /\ yielded[m].ok
        /\ rpc \in {"shutdown", "done"}

\* C35: parse_files terminates: the generator finishes, whether or not the
\* driver threads of timed-out files ever return.
C35_ParseFilesTerminates == <>(rpc = "done")

\* The pool threads still inside the driver of a file that was yielded as
\* timed out.
AbandonedThreads ==
    {j \in 1..Len(yielded) : yielded[j].error = "timeout" /\ task[j] = "running"}

\* C36: a file is reported as TIMEOUT only for the time its own driver ran:
\* never while its task is still waiting in the pool's queue because the
\* abandoned threads of earlier timed-out files hold every pool thread.
C36_TimeoutOnlyForOwnRunTime ==
    \A k \in 1..Len(yielded) :
        yielded[k].error = "timeout" =>
            ~(task[k] = "queued" /\ Cardinality(AbandonedThreads) = MaxWorkers)


-----------------------------------------------------------------------------
(***************************************************************************)
(* DFG builder: DfgBuilder.build over one ParseStream                      *)
(***************************************************************************)

\* Bounds of the DFG model
MaxEvents == 8

MaxDepth == 3

MaxDefsPerFunc == 2

MaxUsesPerFunc == 2

Names == {"x", "y"}

\* _FuncState(func_id): versions maps a name to its current SSA version, -1
\* standing for a name the dict does not hold.
FuncState(func_id) ==
    [func_id |-> func_id, defs_count |-> 0, uses_count |-> 0,
     versions |-> [n \in Names |-> -1], in_params |-> FALSE, assign_stack |-> <<>>]

\* _stable_id over its parts: the digest is modelled by the tuple of parts.
\* node_id(kind, func_id, name, version, ev) ends with the event's byte_start.
node_id(kind, func_id, name, version, byte_start) ==
    [tag |-> "node", func |-> func_id, kind |-> kind, name |-> name,
     version |-> version, parts |-> 9, byte |-> byte_start]

\* logical_def_id(nm, ver) hashes eight parts: no byte_start.
logical_def_id(func_id, nm, ver) ==
    [tag |-> "node", func |-> func_id, kind |-> "var_def", name |-> nm,
     version |-> ver, parts |-> 8, byte |-> -1]

\* logical_use_id(nm, ver, b) hashes the same nine parts as node_id(VAR_USE, ...).
logical_use_id(func_id, nm, ver, b) ==
    [tag |-> "node", func |-> func_id, kind |-> "var_use", name |-> nm,
     version |-> ver, parts |-> 9, byte |-> b]

DfgNodeRow(kind, func_id, name, version, byte_start, assign) ==
    [id |-> node_id(kind, func_id, name, version, byte_start), func_id |-> func_id,
     kind |-> kind, name |-> name, version |-> version, byte |-> byte_start,
     assign |-> assign]

DfgEdgeRow(func_id, src, dst, name, version) ==
    [kind |-> "def_use", func_id |-> func_id, src_id |-> src, dst_id |-> dst,
     name |-> name, version |-> version]

\* The innermost assignment construct open in the walk (its ENTER byte_start),
\* 0 when the token is in no assignment. It is provenance, not builder state.
RECURSIVE InnermostAssign(_)
InnermostAssign(open) ==
    IF open = <<>> THEN 0
    ELSE IF open[Len(open)].t = "assign" THEN open[Len(open)].at
    ELSE IF open[Len(open)].t = "func" THEN 0
    ELSE InnermostAssign(SubSeq(open, 1, Len(open) - 1))

Top(st) == st[Len(st)]

Pop(st) == SubSeq(st, 1, Len(st) - 1)

SetTop(st, f) == [st EXCEPT ![Len(st)] = f]

\* emit_param: versions.setdefault(name, 0); PARAM row at version 0.
ParamVersions(versions, name) ==
    IF versions[name] = -1 THEN [versions EXCEPT ![name] = 0] ELSE versions

\* A builder that numbers a definition without looking at the current version.
DefVersionAlwaysZero(versions, name) == 0

\* emit_var_def: v = versions.get(name, -1) + 1.
DefVersion(versions, name) == versions[name] + 1

\* emit_var_use: v = versions.get(name, 0).
UseVersion(versions, name) == IF versions[name] = -1 THEN 0 ELSE versions[name]

DfgInit ==
    /\ dOpen = <<>>
    /\ dPos = 0
    /\ func_stack = <<>>
    /\ dfgNodes = <<>>
    /\ dfgEdges = <<>>
    /\ dAnoms = 0

\* Lines 287-300: what happens to an event that is not a function ENTER before
\* its kind is looked at. "skip": no function open; "drop": resource guard.
Gate ==
    IF func_stack = <<>> THEN "skip"
    ELSE IF Top(func_stack).defs_count > MaxDefsPerFunc
            \/ Top(func_stack).uses_count > MaxUsesPerFunc THEN "drop"
    ELSE "handle"

\* The guard's effect: MEMORY_LIMIT anomaly, pop the function, next event.
GateSkipOrDrop ==
    /\ func_stack' = IF Gate = "drop" THEN Pop(func_stack) ELSE func_stack
    /\ dAnoms' = IF Gate = "drop" THEN dAnoms + 1 ELSE dAnoms
    /\ UNCHANGED <<dfgNodes, dfgEdges>>

\* Lines 281-285: ENTER of a function node opens a _FuncState.
DfgEnterFunction ==
    /\ dPos < MaxEvents
    /\ Len(dOpen) < MaxDepth
    /\ dPos' = dPos + 1
    /\ dOpen' = Append(dOpen, [t |-> "func", at |-> dPos + 1])
    /\ func_stack' = Append(func_stack, FuncState(dPos + 1))
    /\ UNCHANGED <<dfgNodes, dfgEdges, dAnoms>>
    /\ UNCHANGED dfgOthers

\* Lines 302-305: ENTER of a parameter list: a function's own, or that of a
\* signature the adapter does not list as a function (a generator, a function
\* type), which the builder then reads as the enclosing function's.
DfgEnterParams ==
    /\ dPos < MaxEvents
    /\ Len(dOpen) < MaxDepth
    /\ dOpen # <<>> /\ Top(dOpen).t \in {"func", "assign"}
    /\ dPos' = dPos + 1
    /\ dOpen' = Append(dOpen, [t |-> "params", at |-> dPos + 1])
    /\ IF Gate = "handle"
       THEN /\ func_stack' = SetTop(func_stack, [Top(func_stack) EXCEPT !.in_params = TRUE])
            /\ UNCHANGED <<dfgNodes, dfgEdges, dAnoms>>
       ELSE GateSkipOrDrop
    /\ UNCHANGED dfgOthers

\* Lines 306-307: ENTER of an assignment node pushes its byte_start.
DfgEnterAssign ==
    /\ dPos < MaxEvents
    /\ Len(dOpen) < MaxDepth
    /\ dOpen # <<>> /\ Top(dOpen).t \in {"func", "assign"}
    /\ dPos' = dPos + 1
    /\ dOpen' = Append(dOpen, [t |-> "assign", at |-> dPos + 1])
    /\ IF Gate = "handle"
       THEN /\ func_stack' = SetTop(func_stack,
                   [Top(func_stack) EXCEPT !.assign_stack = Append(@, dPos + 1)])
            /\ UNCHANGED <<dfgNodes, dfgEdges, dAnoms>>
       ELSE GateSkipOrDrop
    /\ UNCHANGED dfgOthers

\* Lines 309-342: an identifier TOKEN named n at byte_start dPos + 1.
DfgToken(n) ==
    /\ dPos < MaxEvents
    /\ dOpen # <<>>
    /\ dPos' = dPos + 1
    /\ UNCHANGED dOpen
    /\ IF Gate = "handle"
       THEN LET func == Top(func_stack)
                b == dPos + 1
                asg == InnermostAssign(dOpen)
            IN  IF func.in_params
                THEN \* emit_param
                     /\ func_stack' = SetTop(func_stack,
                            [func EXCEPT !.versions = ParamVersions(@, n)])
                     /\ dfgNodes' = Append(dfgNodes,
                            DfgNodeRow("param", func.func_id, n, 0, b, asg))
                     /\ UNCHANGED <<dfgEdges, dAnoms>>
                ELSE IF func.assign_stack # <<>>
                THEN \* emit_var_def; the assignment's entry is popped
                     LET v == DefVersion(func.versions, n) IN
                     /\ func_stack' = SetTop(func_stack,
                            [func EXCEPT !.versions = [@ EXCEPT ![n] = v],
                                         !.defs_count = @ + 1,
                                         !.assign_stack = Pop(@)])
                     /\ dfgNodes' = Append(dfgNodes,
                            DfgNodeRow("var_def", func.func_id, n, v, b, asg))
                     /\ UNCHANGED <<dfgEdges, dAnoms>>
                ELSE \* emit_var_use with its DEF_USE edge
                     LET v == UseVersion(func.versions, n) IN
                     /\ func_stack' = SetTop(func_stack,
                            [func EXCEPT !.uses_count = @ + 1])
                     /\ dfgNodes' = Append(dfgNodes,
                            DfgNodeRow("var_use", func.func_id, n, v, b, asg))
                     /\ dfgEdges' = Append(dfgEdges,
                            DfgEdgeRow(func.func_id,
                                       logical_def_id(func.func_id, n, v),
                                       logical_use_id(func.func_id, n, v, b), n, v))
                     /\ UNCHANGED dAnoms
       ELSE GateSkipOrDrop
    /\ UNCHANGED dfgOthers

\* Lines 361-368: EXIT of the innermost open construct.
DfgExit ==
    /\ dPos < MaxEvents
    /\ dOpen # <<>>
    /\ dPos' = dPos + 1
    /\ dOpen' = Pop(dOpen)
    /\ IF Gate = "handle"
       THEN LET func == Top(func_stack)
                t == Top(dOpen).t
            IN  /\ func_stack' =
                     IF t = "params"
                     THEN SetTop(func_stack, [func EXCEPT !.in_params = FALSE])
                     ELSE IF t = "func"
                     THEN Pop(func_stack)
                     ELSE IF func.assign_stack # <<>>
                     THEN SetTop(func_stack, [func EXCEPT !.assign_stack = Pop(@)])
                     ELSE func_stack
                /\ UNCHANGED <<dfgNodes, dfgEdges, dAnoms>>
       ELSE GateSkipOrDrop
    /\ UNCHANGED dfgOthers

\* An ENTER or EXIT of a node that is no function, parameter list or
\* assignment (the wrapper of a leaf): only lines 287-300 can act on it.
DfgOther ==
    /\ dPos < MaxEvents
    /\ dOpen # <<>>
    /\ dPos' = dPos + 1
    /\ UNCHANGED dOpen
    /\ IF Gate = "handle"
       THEN UNCHANGED <<func_stack, dfgNodes, dfgEdges, dAnoms>>
       ELSE GateSkipOrDrop
    /\ UNCHANGED dfgOthers

DfgIdle == DfgInit

RowsOf(kind) == {i \in 1..Len(dfgNodes) : dfgNodes[i].kind = kind}

SameVar(i, j) ==
    /\ dfgNodes[i].func_id = dfgNodes[j].func_id
    /\ dfgNodes[i].name = dfgNodes[j].name

EarlierDefs(i) == {j \in RowsOf("var_def") : j < i /\ SameVar(i, j)}

\* The name is a parameter when it is first defined: a PARAM row of the
\* variable comes before row i and before every VAR_DEF row of it.
ParamFirst(i) ==
    \E j \in RowsOf("param") :
        /\ j < i
        /\ SameVar(i, j)
        /\ \A d \in EarlierDefs(i) : j < d

C4_DefUseIntegrity ==
    \A e \in 1..Len(dfgEdges) :
        \E d \in RowsOf("var_def") \cup RowsOf("param"), u \in RowsOf("var_use") :
            /\ dfgNodes[d].id = dfgEdges[e].src_id
            /\ dfgNodes[u].id = dfgEdges[e].dst_id
            /\ SameVar(d, u)
            /\ dfgNodes[d].version = dfgNodes[u].version

\* Row d is the one definition made by the assignment it lies in.
SoleTarget(d) ==
    /\ dfgNodes[d].assign # 0
    /\ \A o \in RowsOf("var_def") : dfgNodes[o].assign = dfgNodes[d].assign => o = d

\* C5: in an assignment to a name that already has a version, a use of that
\* name on the right-hand side carries the version from before the assignment
\* and the assignment's VAR_DEF carries that version plus one.
C5_RhsBeforeLhs ==
    \A d \in RowsOf("var_def"), u \in RowsOf("var_use") :
        ( /\ SameVar(d, u)
          /\ SoleTarget(d)
          /\ dfgNodes[d].assign = dfgNodes[u].assign
          /\ dfgNodes[d].version >= 1 )
        => dfgNodes[d].version = dfgNodes[u].version + 1

\* Everything build() yields, as (tag, row) items: each yield statement of the
\* builder is tagged "dfg_node" or "dfg_edge".
DfgItems ==
    [i \in 1..Len(dfgNodes) |-> [tag |-> "dfg_node", row |-> dfgNodes[i]]]
        \o [i \in 1..Len(dfgEdges) |-> [tag |-> "dfg_edge", row |-> dfgEdges[i]]]

\* The alias_hint items among them.
alias_hints == SelectSeq(DfgItems, LAMBDA item : item.tag = "alias_hint")

\* The assignments (by ENTER byte_start) the walk has entered and left.
ClosedAssigns ==
    {dfgNodes[i].assign : i \in 1..Len(dfgNodes)}
        \ ({0} \cup {dOpen[k].at : k \in 1..Len(dOpen)})

\* Exactly one identifier was bound and exactly one was read in assignment s.
SimpleAssign(s) ==
    /\ Cardinality({i \in RowsOf("var_def") : dfgNodes[i].assign = s}) = 1
    /\ Cardinality({i \in RowsOf("var_use") : dfgNodes[i].assign = s}) = 1
    /\ RowsOf("param") \cap {i \in 1..Len(dfgNodes) : dfgNodes[i].assign = s} = {}

\* C17: once an assignment with exactly one left-hand identifier and exactly
\* one right-hand identifier has been left, exactly one alias_hint item has
\* been yielded for it.
C17_AliasHintPerSimpleAssign ==
    \A s \in ClosedAssigns :
        SimpleAssign(s) =>
            Cardinality({h \in 1..Len(alias_hints) : alias_hints[h].row.assign = s}) = 1

\* Row u reads a name that has neither a PARAM nor a VAR_DEF row before it in
\* its function.
UnseenUse(u) ==
    ~ \E j \in RowsOf("param") \cup RowsOf("var_def") : j < u /\ SameVar(u, j)

\* C20: a use of a name with no parameter or definition before it has its
\* VAR_USE row but no DEF_USE edge pointing at it.
C20_NoEdgeForUnseenUse ==
    \A u \in RowsOf("var_use") :
        UnseenUse(u) =>
            ~ \E e \in 1..Len(dfgEdges) :
                dfgEdges[e].dst_id =
                    logical_use_id(dfgNodes[u].func_id, dfgNodes[u].name,
                                   dfgNodes[u].version, dfgNodes[u].byte)

\* The function constructs the walk is inside of, by ENTER byte_start.
OpenFunctions == {dOpen[k].at : k \in {j \in 1..Len(dOpen) : dOpen[j].t = "func"}}

\* The functions the builder holds a state for.
StackedFunctions == {func_stack[k].func_id : k \in 1..Len(func_stack)}

\* C32: a function dropped by the resource guard gets one anomaly and stays
\* silent up to its own EXIT: no row made from an event inside a function
\* that is still open is attributed to a function enclosing it, and the
\* guard has fired once for each open function the builder no longer holds.
C32_DroppedFunctionStaysSilent ==
    /\ \A f \in OpenFunctions :
          \A i \in 1..Len(dfgNodes) :
              dfgNodes[i].byte > f => dfgNodes[i].func_id >= f
    /\ Cardinality(OpenFunctions \ StackedFunctions) <= dAnoms

\* C37: the function stack mirrors the open function constructs: the EXIT
\* of a function takes that function's own state off the stack, if the
\* stack still holds it, and no other function's state.
C37_FunctionExitClosesOwnState ==
    [][(/\ dOpen # <<>>
        /\ Top(dOpen).t = "func"
        /\ dOpen' = Pop(dOpen))
       => StackedFunctions' = StackedFunctions \ {Top(dOpen).at}]_vars

-----------------------------------------------------------------------------
(***************************************************************************)
(* Normalizer: Normalizer.normalize over one ParseStream (JS/TS adapter)   *)
(***************************************************************************)

MaxNormEvents == 7

\* NormalizerConfig.max_scope_depth and max_pending_constructs, scaled down.
max_scope_depth == 2

max_pending_constructs == 3

\* _Adapter (JS/TS): the sets the model draws node types from. "function" and
\* "class" are the anonymous keyword leaves of a tree-sitter tree.
module_types == {"program"}

class_types == {"class_declaration"}

function_types == {"function_declaration"}

LeafTypes == {"function", "class", "identifier"}

call_types == {"call_expression"}

decorator_types == {"decorator"}

NodeTypes == module_types \cup class_types \cup function_types \cup LeafTypes
                 \cup call_types \cup decorator_types \cup {"statement_block"}

is_module(t) == t \in module_types

is_class(t) == t \in class_types

is_function(t) == t \in function_types

is_call(t) == t \in call_types

is_decorator(t) == t \in decorator_types

\* "function"/"method"/"lambda"/"arrow" in the lowered type, none of the
\* excluded words.
looks_like_function(t) == t \in function_types \/ t = "function"

\* "class" in the lowered type, class_body/class_heritage excluded.
looks_like_class(t) == t \in class_types \/ t = "class"

\* _safe_classify: the NodeKind of a node type, "none" for None.
safe_classify(t) ==
    IF is_module(t) THEN "module"
    ELSE IF is_class(t) THEN "class"
    ELSE IF is_function(t) THEN "function"
    ELSE IF looks_like_function(t) THEN "function"
    ELSE IF looks_like_class(t) THEN "class"
    ELSE IF is_call(t) THEN "symbol"
    ELSE IF is_decorator(t) THEN "effect_carrier"
    ELSE "none"

\* _start_based_node_id: the digest of (kind, byte_start) for one file.
start_based_node_id(kind, byte_start) == [kind |-> kind, start |-> byte_start]

\* _file_node: digest of ("file", "0").
file_id == start_based_node_id("file", 0)

ScopeTopId(stack) == IF stack = <<>> THEN file_id ELSE stack[Len(stack)].node_id

\* A NodeRow; `encl` records the scope that enclosed the construct at its ENTER.
NormNode(id, kind, how, encl) == [id |-> id, kind |-> kind, how |-> how, encl |-> encl]

DefinesEdge(src, dst) == [kind |-> "defines", src_id |-> src, dst_id |-> dst]

DecoratesEdge(src, dst) == [kind |-> "decorates", src_id |-> src, dst_id |-> dst]

\* A CALLS EdgeRow; encl_func and encl_scope record the function and the
\* module or class that enclosed the call at its ENTER, read off the driver's
\* open nodes.
CallsEdge(src, dst, encl_func, encl_scope) ==
    [kind |-> "calls", src_id |-> src, dst_id |-> dst, encl_func |-> encl_func,
     encl_scope |-> encl_scope]

\* The callee names of the file, numbered.
CalleeNames == {1}

\* _create_symbol_node: the digest of (name, symbol_kind).
symbol_id(name, symbol_kind) == [kind |-> symbol_kind, start |-> name]

\* A caller lookup that takes the innermost scope whatever its kind.
caller_innermost(stack) == ScopeTopId(stack)

\* Lines 428-436 and 627-633: the nearest FUNCTION scope on the stack, else
\* the top of the stack, else the file.
caller_of(stack) ==
    LET fs == {i \in 1..Len(stack) : stack[i].kind = "function"}
    IN  IF fs # {} THEN stack[CHOOSE i \in fs : \A j \in fs : j <= i].node_id
        ELSE ScopeTopId(stack)

\* The same read off the driver's walk: the nearest open function
\* declaration, NoScope when the call is in no function.
NoScope == start_based_node_id("none", 0)

EnclosingFunction(open) ==
    LET fs == {i \in 1..Len(open) : open[i].type \in function_types}
    IN  IF fs = {} THEN NoScope
        ELSE start_based_node_id("function", open[CHOOSE k \in fs : \A j \in fs : j <= k].start)

\* The innermost open module or class declaration, else the file.
EnclosingScope(open) ==
    LET ss == {i \in 1..Len(open) : open[i].type \in module_types \cup class_types}
    IN  IF ss = {} THEN file_id
        ELSE LET i == CHOOSE k \in ss : \A j \in ss : j <= k
             IN  start_based_node_id(safe_classify(open[i].type), open[i].start)

\* Lines 404-420: the pending decorators a scope opening at byte_start takes.
Drained(decos, byte_start) ==
    SelectSeq(decos, LAMBDA d : d.byte_start <= byte_start)

StillPending(decos, byte_start) ==
    SelectSeq(decos, LAMBDA d : ~(d.byte_start <= byte_start))

RECURSIVE DecoratesEdges(_, _)
DecoratesEdges(ds, dst) ==
    IF ds = <<>> THEN <<>>
    ELSE <<DecoratesEdge(Head(ds).deco_id, dst)>> \o DecoratesEdges(Tail(ds), dst)

\* Lines 570-576: the innermost FUNCTION or CLASS scope that starts at or
\* after the decorator, 0 for none.
target_scope(stack, byte_start) ==
    LET hits == {i \in 1..Len(stack) :
                    /\ stack[i].kind \in {"function", "class"}
                    /\ byte_start <= stack[i].byte_start}
    IN  IF hits = {} THEN 0 ELSE CHOOSE i \in hits : \A j \in hits : j <= i

\* Lines 383-386.
is_real_decl(nkind, t) ==
    \/ nkind = "function" /\ t \in function_types
    \/ nkind = "class" /\ t \in class_types

RemoveAt(st, i) == SubSeq(st, 1, i - 1) \o SubSeq(st, i + 1, Len(st))

NormInit ==
    /\ nOpen = <<>>
    /\ nPos = 0
    /\ scope_stack = <<>>
    /\ pend_stack = <<>>
    /\ module_emitted = FALSE
    /\ pending_decorators = <<>>
    /\ nNodes = <<NormNode(file_id, "file", "scope", file_id)>>
    /\ nEdges = <<>>
    /\ nAnoms = 0
    /\ nRun = "run"
    /\ nOpened = <<>>

NormIdle ==
    /\ nOpen = <<>>
    /\ nPos = 0
    /\ scope_stack = <<>>
    /\ pend_stack = <<>>
    /\ module_emitted = FALSE
    /\ pending_decorators = <<>>
    /\ nNodes = <<>>
    /\ nEdges = <<>>
    /\ nAnoms = 0
    /\ nRun = "idle"
    /\ nOpened = <<>>

\* Lines 341-439: an ENTER of a node of type t. Its byte_start is that of its
\* parent when it is the parent's first child and `same` holds (a keyword leaf
\* opens its declaration), else past everything seen.
NormEnter(t, same) ==
    /\ nRun = "run"
    /\ nPos < MaxNormEvents
    /\ nOpen # <<>> => Top(nOpen).type \notin LeafTypes
    /\ is_module(t) <=> nOpen = <<>>
    /\ same => (nOpen # <<>> /\ ~Top(nOpen).kids /\ t \in LeafTypes \cup decorator_types)
    /\ nPos' = nPos + 1
    /\ LET start == IF same THEN Top(nOpen).start ELSE nPos
           nkind == safe_classify(t)
           real  == is_real_decl(nkind, t)
           encl  == ScopeTopId(scope_stack)
           opens == nkind \in {"class", "function"} /\ real
       IN  /\ nOpen' = Append(IF nOpen = <<>> THEN nOpen
                                ELSE SetTop(nOpen, [Top(nOpen) EXCEPT !.kids = TRUE]),
                              [type |-> t, start |-> start, kids |-> FALSE])
           /\ IF Len(pend_stack) > max_pending_constructs
                 \/ Len(scope_stack) > max_scope_depth
              THEN \* MEMORY_LIMIT anomaly and return
                   /\ nAnoms' = nAnoms + 1
                   /\ nRun' = "aborted"
                   /\ UNCHANGED <<scope_stack, pend_stack, module_emitted,
                                  pending_decorators, nEdges, nOpened>>
              ELSE /\ scope_stack' =
                        IF nkind = "module" /\ ~module_emitted
                        THEN Append(scope_stack,
                                 [node_id |-> start_based_node_id("module", start),
                                  kind |-> "module", parent_id |-> file_id,
                                  byte_start |-> start])
                        ELSE IF nkind \in {"class", "function"} /\ real
                        THEN Append(scope_stack,
                                 [node_id |-> start_based_node_id(nkind, start),
                                  kind |-> nkind, parent_id |-> encl,
                                  byte_start |-> start])
                        ELSE scope_stack
                   /\ nOpened' =
                        IF (nkind = "module" /\ ~module_emitted) \/ opens
                        THEN Append(nOpened, start_based_node_id(nkind, start))
                        ELSE nOpened
                   /\ module_emitted' = (module_emitted \/ nkind = "module")
                   /\ pend_stack' = Append(pend_stack,
                        [kind |-> IF nkind = "none" THEN "block"
                                  ELSE IF nkind \in {"class", "function"} /\ ~real
                                  THEN "block" ELSE nkind,
                         type_name |-> t, byte_start |-> start, encl |-> encl,
                         call_like |-> is_call(t),
                         call_src |-> caller_of(scope_stack),
                         encl_func |-> EnclosingFunction(nOpen),
                         encl_scope |-> EnclosingScope(nOpen)])
                   /\ nEdges' = IF opens
                                THEN nEdges \o DecoratesEdges(
                                         Drained(pending_decorators, start),
                                         start_based_node_id(nkind, start))
                                ELSE nEdges
                   /\ pending_decorators' = IF opens
                                            THEN StillPending(pending_decorators, start)
                                            ELSE pending_decorators
                   /\ UNCHANGED <<nAnoms, nRun>>
    /\ UNCHANGED nNodes
    /\ UNCHANGED normOthers

\* The index of the scope an EXIT of `cur` finalizes, 0 for none: the top
\* when it started where cur did (fast path), else the innermost scope that
\* did (slow path), else the top (out-of-order EXIT).
CloseIndex(stack, cur) ==
    IF stack = <<>> THEN 0
    ELSE IF stack[Len(stack)].byte_start = cur.byte_start THEN Len(stack)
    ELSE LET hits == {i \in 1..Len(stack) : stack[i].byte_start = cur.byte_start}
         IN  IF hits # {} THEN CHOOSE i \in hits : \A j \in hits : j <= i
             ELSE Len(stack)

\* Lines 530-544: the out-of-order EXIT is logged.
OutOfOrder(stack, cur) ==
    /\ stack # <<>>
    /\ \A i \in 1..Len(stack) : stack[i].byte_start # cur.byte_start

\* Lines 594-600: the kind the fallback emission infers for a demoted construct.
inferred_kind(t) ==
    IF is_function(t) \/ looks_like_function(t) THEN "function"
    ELSE IF is_class(t) \/ looks_like_class(t) THEN "class"
    ELSE "none"

\* Lines 447-642: an EXIT of the innermost open node; `callee` is the name
\* the token window gives a call.
NormExit(callee) ==
    /\ nRun = "run"
    /\ nPos < MaxNormEvents
    /\ nOpen # <<>>
    /\ nPos' = nPos + 1
    /\ nOpen' = Pop(nOpen)
    /\ IF pend_stack = <<>>
       THEN UNCHANGED <<scope_stack, pend_stack, pending_decorators, nNodes, nEdges,
                        nAnoms>>
       ELSE LET cur == Top(pend_stack)
                closes == cur.kind \in {"module", "class", "function"}
                idx == IF closes THEN CloseIndex(scope_stack, cur) ELSE 0
                after == IF idx = 0 THEN scope_stack ELSE RemoveAt(scope_stack, idx)
                ik == IF cur.kind = "block" THEN inferred_kind(cur.type_name) ELSE "none"
                \* _finalize_scope_at_index
                finN == IF idx = 0 THEN <<>>
                        ELSE <<NormNode(scope_stack[idx].node_id, scope_stack[idx].kind, "scope",
                                       scope_stack[idx].parent_id)>>
                finE == IF idx = 0 THEN <<>>
                        ELSE <<DefinesEdge(scope_stack[idx].parent_id, scope_stack[idx].node_id)>>
                \* fallback emission
                infN == IF ik = "none" THEN <<>>
                        ELSE <<NormNode(start_based_node_id(ik, cur.byte_start), ik, "inferred",
                                       cur.encl)>>
                infE == IF ik = "none" THEN <<>>
                        ELSE <<DefinesEdge(ScopeTopId(after),
                                           start_based_node_id(ik, cur.byte_start))>>
                \* effect carriers, lines 557-589
                deco == cur.kind = "effect_carrier"
                deco_id == start_based_node_id("effect_carrier", cur.byte_start)
                tgt == IF deco THEN target_scope(after, cur.byte_start) ELSE 0
                decN == IF deco
                        THEN <<NormNode(deco_id, "effect_carrier", "decorator", cur.encl)>>
                        ELSE <<>>
                decE == IF tgt # 0 THEN <<DecoratesEdge(deco_id, after[tgt].node_id)>>
                        ELSE <<>>
                \* calls, lines 622-642
                sym == symbol_id(callee, "callee")
                callN == IF cur.call_like
                         THEN <<NormNode(sym, "symbol", "callee", cur.encl)>> ELSE <<>>
                callE == IF cur.call_like
                         THEN <<CallsEdge(cur.call_src, sym, cur.encl_func, cur.encl_scope)>> ELSE <<>>
            IN  /\ pend_stack' = Pop(pend_stack)
                /\ scope_stack' = after
                /\ nNodes' = nNodes \o finN \o decN \o infN \o callN
                /\ nEdges' = nEdges \o finE \o decE \o infE \o callE
                /\ pending_decorators' =
                       IF deco /\ tgt = 0
                       THEN Append(pending_decorators,
                                   [deco_id |-> deco_id, byte_start |-> cur.byte_start])
                       ELSE pending_decorators
                /\ nAnoms' = IF closes /\ OutOfOrder(scope_stack, cur)
                             THEN nAnoms + 1 ELSE nAnoms
    /\ UNCHANGED <<module_emitted, nRun, nOpened>>
    /\ UNCHANGED normOthers

\* An end-of-stream pass that walks the scope stack from the bottom.
RECURSIVE SyntheticNodesOuterFirst(_)
SyntheticNodesOuterFirst(stack) ==
    IF stack = <<>> THEN <<>>
    ELSE <<NormNode(Head(stack).node_id, Head(stack).kind, "synthetic",
                    Head(stack).parent_id)>>
             \o SyntheticNodesOuterFirst(Tail(stack))

\* _emit_synthetic_scope_end for every scope left open, innermost first.
RECURSIVE SyntheticNodes(_)
SyntheticNodes(stack) ==
    IF stack = <<>> THEN <<>>
    ELSE <<NormNode(Top(stack).node_id, Top(stack).kind, "synthetic",
                    Top(stack).parent_id)>>
             \o SyntheticNodes(Pop(stack))

RECURSIVE SyntheticEdges(_)
SyntheticEdges(stack) ==
    IF stack = <<>> THEN <<>>
    ELSE <<DefinesEdge(Top(stack).parent_id, Top(stack).node_id)>>
             \o SyntheticEdges(Pop(stack))

\* Lines 644-652: the event stream ends (a truncated stream leaves scopes open).
NormEof ==
    /\ nRun = "run"
    /\ nRun' = "done"
    /\ nNodes' = nNodes \o SyntheticNodes(scope_stack)
    /\ nEdges' = nEdges \o SyntheticEdges(scope_stack)
    /\ scope_stack' = <<>>
    /\ UNCHANGED <<nOpen, nPos, pend_stack, module_emitted, pending_decorators, nAnoms,
                    nOpened>>
    /\ UNCHANGED normOthers

InboundDefines(id) ==
    {e \in 1..Len(nEdges) : nEdges[e].kind = "defines" /\ nEdges[e].dst_id = id}

\* C6: every CLASS or FUNCTION node of the output has exactly one inbound
\* DEFINES edge, and that edge comes from the scope that enclosed the construct
\* when it was entered (the FILE node when there was none).
C6_OneDefinesFromParent ==
    \A n \in 1..Len(nNodes) :
        nNodes[n].kind \in {"class", "function"} =>
            /\ Cardinality(InboundDefines(nNodes[n].id)) = 1
            /\ \A e \in InboundDefines(nNodes[n].id) :
                    nEdges[e].src_id = nNodes[n].encl

\* C29: the pending-construct stack never holds more than
\* max_pending_constructs entries and the scope stack never more than
\* max_scope_depth: the ENTER that would exceed a limit is not pushed.
C29_StacksWithinLimits ==
    /\ Len(pend_stack) <= max_pending_constructs
    /\ Len(scope_stack) <= max_scope_depth

\* The rows that emit scope `id` itself: at its EXIT or at the end of the stream.
ScopeEmissions(id) ==
    {n \in 1..Len(nNodes) : nNodes[n].id = id /\ nNodes[n].how \in {"scope", "synthetic"}}

SyntheticRows == {n \in 1..Len(nNodes) : nNodes[n].how = "synthetic"}

OpenedAt(id) == CHOOSE k \in 1..Len(nOpened) : nOpened[k] = id

C15_CallerIsEnclosingFunction ==
    \A e \in 1..Len(nEdges) :
        nEdges[e].kind = "calls" =>
            IF nEdges[e].encl_func # NoScope
            THEN nEdges[e].src_id = nEdges[e].encl_func
            ELSE nEdges[e].src_id \in {file_id, nEdges[e].encl_scope}

\* A call inside a class that is inside a function, and a call outside every
\* function.
C15_Witness ==
    /\ \E e \in 1..Len(nEdges) :
          /\ nEdges[e].kind = "calls"
          /\ nEdges[e].src_id.kind = "function"
          /\ \E k \in 1..Len(nOpen) : nOpen[k].type \in class_types
                 /\ \E j \in 1..(k - 1) : nOpen[j].type \in function_types
                        /\ nEdges[e].src_id.start = nOpen[j].start
    /\ \E e \in 1..Len(nEdges) :
          nEdges[e].kind = "calls" /\ nEdges[e].src_id.kind # "function"

DecoratesFrom(id) ==
    {e \in 1..Len(nEdges) :
        /\ nEdges[e].kind = "decorates"
        /\ nEdges[e].src_id = id
        /\ nEdges[e].dst_id.kind \in {"function", "class"}}

\* C16: when the normalizer has finished a file whose event stream was
\* complete, every decorator EFFECT_CARRIER node has a DECORATES edge from it
\* to a FUNCTION or CLASS scope.
C16_DecoratorsLinked ==
    nRun = "done" /\ nOpen = <<>> =>
        \A n \in 1..Len(nNodes) :
            nNodes[n].kind = "effect_carrier" => DecoratesFrom(nNodes[n].id) # {}

\* The ids of the node rows the normalizer has emitted for the file.
EmittedNodeIds == {nNodes[n].id : n \in 1..Len(nNodes)}

-----------------------------------------------------------------------------
(***************************************************************************)
(* UcgStore: buffered, verified Parquet writes into staging, then publish  *)
(***************************************************************************)

\* Rows one store may be handed, rows per append call, and the byte cap.
MaxRows == 3

MaxBatch == 2

MaxBytesCap == 5

\* UcgStore.roll_rows, scaled down (the constructor keeps it at 1000 or more).
roll_rows == 2

\* How many times finalize is called on one store.
MaxFinalizeCalls == 2

\* The tables in the order flush() visits them.
TableOrder == <<"nodes", "edges", "anomalies", "dfg_nodes">>

Tables == Range(TableOrder)

\* _flush_nodes and _flush_edges write their first file even from an empty
\* buffer; the other tables skip an empty buffer.
WritesEmptyFirst == {"nodes", "edges"}

\* What one pq.write_table + read-back can do.
WriteModes == {"ok", "io_error", "empty_file", "short_read"}

\* The faults of one call: none, or the write of one table going wrong.
Faults == {<<"none", "ok">>} \cup (Tables \X (WriteModes \ {"ok"}))

\* max_bytes=None: no cap.
NoCap == -1

NoRaise == [table |-> "none"]

\* st_size of a Parquet file: footer and schema, then the rows.
FileSize(rows) == 1 + Len(rows)

\* A naming that gives every file of a table the first partition's name.
PathFirst(st, t) == [table |-> t, idx |-> 0]

\* self._staging / "<table>" / f"{self.file_prefix}_<table>_{idx:05}.parquet"
PathOf(st, t) == [table |-> t, idx |-> st.file_idx[t]]

\* pq.write_table(tbl, path): the file the write leaves at path, if any.
WrittenFiles(path, rows, mode) ==
    IF mode = "ok" THEN {[path |-> path, rows |-> rows, size |-> FileSize(rows)]}
    ELSE IF mode = "empty_file" THEN {[path |-> path, rows |-> <<>>, size |-> 0]}
    ELSE IF mode = "short_read" THEN {[path |-> path, rows |-> <<>>, size |-> 1]}
    ELSE {[path |-> path, rows |-> <<>>, size |-> 1]}

\* A cleanup that leaves the partial file where it is.
KeepFile(staging, path) == staging

\* path.unlink(): lines 818 and 829-830.
Unlink(staging, path) == {f \in staging : f.path # path}

\* An accounting that keeps the rejected file's bytes.
NotRolledBack(bytes_written, file_size) == bytes_written

\* Line 817: self._bytes_written -= file_size.
RolledBack(bytes_written, file_size) == bytes_written - file_size

\* _verified_write(buf, path): the store after it, whether it returned, and
\* why it raised.
verified_write(st, t, mode) ==
    LET path == PathOf(st, t)
        rows == st.buf[t]
        onDisk == st.staging \cup WrittenFiles(path, rows, mode)
        file_size == FileSize(rows)
        counted == st.bytes_written + file_size
    IN  IF mode # "ok"
        THEN [st |-> [st EXCEPT !.staging = Unlink(onDisk, path)],
              ok |-> FALSE, cause |-> mode]
        ELSE IF st.max_bytes # NoCap /\ counted > st.max_bytes
        THEN [st |-> [st EXCEPT !.staging = Unlink(onDisk, path),
                                !.bytes_written = RolledBack(counted, file_size)],
              ok |-> FALSE, cause |-> "max_bytes"]
        ELSE [st |-> [st EXCEPT !.staging = onDisk, !.bytes_written = counted],
              ok |-> TRUE, cause |-> "none"]

\* An early return on every empty buffer.
FlushSkipsEmpty(st, t) == st.buf[t] = <<>>

\* The early return of a _flush_<table>.
FlushSkips(st, t) ==
    IF t \in WritesEmptyFirst
    THEN st.buf[t] = <<>> /\ st.file_idx[t] > 0
    ELSE st.buf[t] = <<>>

\* _flush_nodes, _flush_edges, _flush_anomalies, _flush_dfg_nodes.
flush_table(st, t, mode) ==
    IF FlushSkips(st, t) THEN [st |-> st, ok |-> TRUE, cause |-> "none"]
    ELSE Only({
         IF w.ok
         THEN [st |-> [w.st EXCEPT !.rows_total[t] = @ + Len(st.buf[t]),
                                   !.file_idx[t] = @ + 1,
                                   !.transaction_log = Append(@, PathOf(st, t)),
                                   !.buf[t] = <<>>],
               ok |-> TRUE, cause |-> "none"]
         ELSE [st |-> w.st, ok |-> FALSE, cause |-> w.cause]
         : w \in {verified_write(st, t, mode)} })

\* What a raising call leaves for its caller: the table, the cause, and the
\* store as it was when the failing flush began.
Raise(t, cause, before) ==
    [table |-> t, cause |-> cause, buf |-> before.buf[t], file_idx |-> before.file_idx[t],
     rows_total |-> before.rows_total[t], transaction_log |-> before.transaction_log,
     bytes_written |-> before.bytes_written]

\* flush(): the tables in order, stopping at the first that raises. The write
\* of table `bad` behaves as `mode`, every other write succeeds.
RECURSIVE flush_from(_, _, _, _)
flush_from(st, k, bad, mode) ==
    IF k > Len(TableOrder) THEN [st |-> st, raised |-> NoRaise]
    ELSE LET t == TableOrder[k] IN
         Only({
         IF r.ok THEN flush_from(r.st, k + 1, bad, mode)
         ELSE [st |-> r.st, raised |-> Raise(t, r.cause, st)]
         : r \in {flush_table(st, t, IF t = bad THEN mode ELSE "ok")} })

flush(st, bad, mode) == flush_from(st, 1, bad, mode)

\* _AdaptiveRowBuffer.should_roll, by row count.
should_roll(buf) == Len(buf) >= roll_rows

\* append / append_anomalies / append_dfg: each row is added to its table's
\* buffer, which is flushed when it should roll. The first write of the call
\* behaves as `mode`.
RECURSIVE append(_, _, _)
append(st, rows, mode) ==
    IF rows = <<>> THEN [st |-> st, raised |-> NoRaise]
    ELSE LET row == Head(rows) IN
         Only({
         IF should_roll(added.buf[row.table])
         THEN Only({
              IF r.ok THEN append(r.st, Tail(rows), "ok")
              ELSE [st |-> r.st, raised |-> Raise(row.table, r.cause, added)]
              : r \in {flush_table(added, row.table, mode)} })
         ELSE append(added, Tail(rows), mode)
         : added \in {[st EXCEPT !.buf[row.table] = Append(@, row.id)]} })

\* UcgStore.__init__: empty buffers and counters, an empty staging directory.
NewStore(max_bytes) ==
    [buf |-> [t \in Tables |-> <<>>],
     file_idx |-> [t \in Tables |-> 0],
     rows_total |-> [t \in Tables |-> 0],
     staging |-> {},
     transaction_log |-> <<>>,
     bytes_written |-> 0,
     max_bytes |-> max_bytes,
     staging_dir |-> "present",
     finalize_calls |-> 0]

StoreInit ==
    /\ store \in {NewStore(mb) : mb \in {NoCap, MaxBytesCap}}
    /\ raised = NoRaise
    /\ next_row = 0
    /\ out_dir \in {"absent", "old"}
    /\ backup \in {"absent", "stale"}
    /\ pub = "open"

StoreIdle ==
    /\ store = NewStore(NoCap)
    /\ raised = NoRaise
    /\ next_row = 0
    /\ out_dir = "absent"
    /\ backup = "absent"
    /\ pub = "idle"

\* n new rows for the tables ts[1..n].
NewRows(ts) == [k \in 1..Len(ts) |-> [table |-> ts[k], id |-> next_row + k]]

\* A caller appends a batch of rows.
StoreAppend(ts, mode) ==
    /\ pub = "open"
    /\ next_row + Len(ts) <= MaxRows
    /\ LET r == append(store, NewRows(ts), mode) IN
       /\ store' = r.st
       /\ raised' = r.raised
    /\ next_row' = next_row + Len(ts)
    /\ UNCHANGED <<out_dir, backup, pub>>
    /\ UNCHANGED <<storeOthers, apiVars>>

\* A caller calls flush().
StoreFlush(bad, mode) ==
    /\ pub = "open"
    /\ LET r == flush(store, bad, mode) IN
       /\ store' = r.st
       /\ raised' = r.raised
    /\ UNCHANGED <<next_row, out_dir, backup, pub>>
    /\ UNCHANGED <<storeOthers, apiVars>>

\* What a finalize that could not write its receipt leaves for its caller.
NoStaging == [table |-> "run_receipt", cause |-> "no_staging"]

\* A receipt writer that creates the missing directory first.
write_receipt_mkdir(st) ==
    [st |-> [st EXCEPT !.staging_dir = IF @ = "moved" THEN "bare" ELSE @],
     raised |-> NoRaise]

\* Lines 533-539: the hashes of the Parquet files under staging (none when
\* staging is gone), then (staging / "run_receipt.json").write_text(...),
\* which raises FileNotFoundError when the staging directory is gone.
write_receipt(st) ==
    IF st.staging_dir = "moved" THEN [st |-> st, raised |-> NoStaging]
    ELSE [st |-> st, raised |-> NoRaise]

\* finalize() up to _atomic_publish: flush, then receipt, hashes and hints
\* written into staging.
finalize(st, bad, mode) ==
    Only({
    IF r.raised # NoRaise THEN r ELSE write_receipt(r.st)
    : r \in {flush([st EXCEPT !.finalize_calls = @ + 1], bad, mode)} })

\* A caller calls finalize(receipt): on a fresh store, again after a finalize
\* that raised, or again after one that published.
StoreFinalize(bad, mode) ==
    /\ pub \in {"open", "failed", "published"}
    /\ store.finalize_calls < MaxFinalizeCalls
    /\ LET r == finalize(store, bad, mode) IN
       /\ store' = r.st
       /\ raised' = r.raised
       /\ pub' = IF r.raised = NoRaise THEN "publish"
                 ELSE IF r.raised = NoStaging THEN "refused"
                 ELSE pub
    /\ UNCHANGED <<next_row, out_dir, backup>>
    /\ UNCHANGED <<storeOthers, apiVars>>

\* _atomic_publish, lines 1068-1072: an existing out_dir is renamed to the
\* backup path, after rmtree(backup, ignore_errors=True). A backup that rmtree
\* could not remove makes the rename raise.
PublishMoveAside(rmtree_ok) ==
    /\ pub = "publish"
    /\ IF out_dir = "absent"
       THEN pub' = "rename" /\ UNCHANGED <<out_dir, backup>>
       ELSE IF backup # "absent" /\ ~rmtree_ok
       THEN pub' = "failed" /\ UNCHANGED <<out_dir, backup>>
       ELSE pub' = "rename" /\ backup' = out_dir /\ out_dir' = "absent"
    /\ UNCHANGED <<store, raised, next_row>>
    /\ api_pc' = IF api_pc = "publishing" /\ pub' = "failed" THEN "raised" ELSE api_pc
    /\ UNCHANGED <<api_files, api_i, api_bufs, api_sink, write_failed, late_work>>
    /\ UNCHANGED storeOthers

\* _atomic_publish, lines 1073-1074: staging is renamed to out_dir, which
\* then holds what staging held: every file the store wrote and the receipt,
\* or the receipt alone when the files had been moved before.
PublishRename ==
    /\ pub = "rename"
    /\ out_dir' = IF store.staging_dir = "present" THEN "new" ELSE "partial"
    /\ store' = [store EXCEPT !.staging_dir = "moved"]
    /\ pub' = "published"
    /\ UNCHANGED <<raised, next_row, backup>>
    /\ api_pc' = IF api_pc = "publishing" THEN "returned" ELSE api_pc
    /\ UNCHANGED <<api_files, api_i, api_bufs, api_sink, write_failed, late_work>>
    /\ UNCHANGED storeOthers

\* C7: while finalize publishes over an earlier run's out_dir, out_dir is
\* present at every step and holds the complete old or the complete new
\* content.
C7_OutDirNeverMissing ==
    (backup = "old" \/ out_dir = "old") => out_dir \in {"old", "new"}

FilesAt(path) == {f \in store.staging : f.path = path}

\* C11: a finalize called again on a store that has published never reaches
\* _atomic_publish: it raises at the receipt, and out_dir keeps the complete
\* output of the first call; out_dir never holds partial or empty output.
C11_SecondFinalizeRefused ==
    /\ out_dir # "partial"
    /\ store.staging_dir = "moved" => pub \in {"published", "refused"} /\ out_dir = "new"
    /\ pub = "refused" => raised = NoStaging /\ store.finalize_calls >= 2

\* finalize was called twice with flushed buffers over an earlier run's
\* out_dir: the first call published, the second was refused.
C11_Witness ==
    /\ pub = "refused"
    /\ store.finalize_calls = 2
    /\ \A t \in Tables : store.buf[t] = <<>>
    /\ backup = "old"
    /\ out_dir = "new"
    /\ store.rows_total["nodes"] > 0

LogFor(t) == SelectSeq(store.transaction_log, LAMBDA logged : logged.table = t)

LoggedPaths == {store.transaction_log[k] : k \in 1..Len(store.transaction_log)}

StagedPaths == {f.path : f \in store.staging}

\* C27: the transaction log has exactly one entry per partition file that was
\* written, in write order, each naming a file in staging; a flush that failed
\* or was rolled back left no entry, and each table's file index equals the
\* number of log entries of that table.
C27_LogMatchesWrittenFiles ==
    /\ LoggedPaths = StagedPaths
    /\ Len(store.transaction_log) = Cardinality(store.staging)
    /\ \A t \in Tables :
          /\ Len(LogFor(t)) = store.file_idx[t]
          /\ \A k \in 1..Len(LogFor(t)) : LogFor(t)[k].idx = k - 1
    /\ raised.table \in Tables => store.transaction_log = raised.transaction_log

\* Two files of one table and a file of another are logged, and the last
\* flush failed on a non-empty buffer.
C27_Witness ==
    /\ raised.table \in Tables
    /\ raised.buf # <<>>
    /\ Len(store.transaction_log) >= 3
    /\ \E t \in Tables : store.file_idx[t] >= 2
    /\ \E t \in Tables : t # "nodes" /\ store.file_idx[t] >= 1

EmptyFiles(t) == {f \in store.staging : f.path.table = t /\ f.rows = <<>>}

\* C28: a store whose finalize went through publishes a first partition of
\* nodes and of edges; a table of the two that was never given a row has
\* exactly partition 00000, with zero rows, and no flush of an empty buffer
\* added another empty partition.
C28_ZeroRowFirstPartitions ==
    \A t \in WritesEmptyFirst :
        /\ pub \in {"publish", "rename", "published"} =>
              /\ FilesAt([table |-> t, idx |-> 0]) # {}
              /\ pub = "published" => out_dir = "new"
        /\ store.rows_total[t] = 0 /\ store.file_idx[t] > 0 =>
              /\ store.file_idx[t] = 1
              /\ \A f \in FilesAt([table |-> t, idx |-> 0]) : f.rows = <<>>
        /\ \A f \in EmptyFiles(t) : f.path.idx = 0
        /\ Cardinality(EmptyFiles(t)) <= 1

\* A store that was flushed twice and finalized with no edge ever appended
\* published one zero-row edges partition beside nodes partitions with rows.
C28_Witness ==
    /\ pub = "published"
    /\ out_dir = "new"
    /\ store.rows_total["edges"] = 0
    /\ store.file_idx["edges"] = 1
    /\ store.rows_total["nodes"] > 0
    /\ Cardinality(EmptyFiles("nodes")) = 1
    /\ store.file_idx["nodes"] >= 2

-----------------------------------------------------------------------------
(***************************************************************************)
(* Orchestrator: api.build_ucg_for_files                                   *)
(***************************************************************************)

MaxApiFiles == 2

MaxItems == 2

\* Step1Config.node_edge_batch / dfg_batch and flush_every_n_files, scaled down.
batch == 2

flush_every_n_files == 2

\* The builders of one file in the order they run, with the store table their
\* rows go to (normalize -> store.append, dfg -> store.append_dfg).
BuilderOrder == <<"normalize", "dfg">>

Builders == Range(BuilderOrder)

TableOf(b) == IF b = "normalize" THEN "nodes" ELSE "dfg_nodes"

\* flush_buffers(force): each buffer that is due goes to the store and is
\* cleared after the store took it. The first store call behaves as `mode`.
RECURSIVE flush_buffers_from(_, _, _, _, _)
flush_buffers_from(st, bufs, k, force, mode) ==
    IF k > Len(BuilderOrder) THEN [st |-> st, bufs |-> bufs, raised |-> NoRaise]
    ELSE LET b == BuilderOrder[k] IN
         IF (force \/ Len(bufs[b]) >= batch) /\ bufs[b] # <<>>
         THEN Only({
              IF r.raised # NoRaise
              THEN [st |-> r.st, bufs |-> bufs, raised |-> r.raised]
              ELSE flush_buffers_from(r.st, [bufs EXCEPT ![b] = <<>>], k + 1, force, "ok")
              : r \in {append(st, bufs[b], mode)} })
         ELSE flush_buffers_from(st, bufs, k + 1, force, mode)

flush_buffers(st, bufs, force, mode) == flush_buffers_from(st, bufs, 1, force, mode)

\* The body of one builder's try block: every item is buffered, and a full
\* buffer calls flush_buffers(). An exception ends the loop.
RECURSIVE builder_loop(_, _, _, _, _)
builder_loop(st, bufs, b, items, mode) ==
    IF items = <<>> THEN [st |-> st, bufs |-> bufs, raised |-> NoRaise]
    ELSE Only({
         IF Len(more[b]) >= batch
         THEN Only({
              IF f.raised # NoRaise THEN f
              ELSE builder_loop(f.st, f.bufs, b, Tail(items), "ok")
              : f \in {flush_buffers(st, more, FALSE, mode)} })
         ELSE builder_loop(st, more, b, Tail(items), mode)
         : more \in {[bufs EXCEPT ![b] = Append(@, Head(items))]} })

\* list(sink.items()) as anomaly rows: every anomaly emitted so far.
AnomalyRows(n) == [k \in 1..n |-> [table |-> "anomalies", id |-> k]]

\* Where one flush point may meet a failing write.
FlushFaults ==
    {<<"none", "none">>, <<"append", "none">>, <<"anomalies", "none">>}
        \cup {<<"flush", t>> : t \in Tables}

\* Lines 290-297 and 300-305: flush_buffers(force=True); store.flush();
\* store.append_anomalies(...) with its exception swallowed.
flush_point(st, bufs, anoms, fault) ==
    Only({
    IF f.raised # NoRaise
    THEN [st |-> f.st, bufs |-> f.bufs, raised |-> f.raised, propagates |-> TRUE]
    ELSE Only({
         IF g.raised # NoRaise
         THEN [st |-> g.st, bufs |-> f.bufs, raised |-> g.raised, propagates |-> TRUE]
         ELSE Only({
              [st |-> a.st, bufs |-> f.bufs, raised |-> a.raised, propagates |-> FALSE]
              : a \in {append(g.st, AnomalyRows(anoms),
                              IF fault[1] = "anomalies" THEN "io_error" ELSE "ok")} })
         : g \in {flush(f.st, fault[2], IF fault[1] = "flush" THEN "io_error" ELSE "ok")} })
    : f \in {flush_buffers(st, bufs, TRUE,
                            IF fault[1] = "append" THEN "io_error" ELSE "ok")} })

ApiInit ==
    /\ StoreInit
    /\ api_pc = "file"
    /\ api_files \in 1..MaxApiFiles
    /\ api_i = 0
    /\ api_bufs = [b \in Builders |-> <<>>]
    /\ api_sink = 0
    /\ write_failed = FALSE
    /\ late_work = 0

ApiIdle ==
    /\ api_pc = "idle"
    /\ api_files = 0
    /\ api_i = 0
    /\ api_bufs = [b \in Builders |-> <<>>]
    /\ api_sink = 0
    /\ write_failed = FALSE
    /\ late_work = 0

\* Lines 157-183: the next file of files_sorted and its guards; a file that is
\* binary, too large or unparsable gets an anomaly and `continue`.
ApiNextFile(skipped) ==
    /\ api_pc = "file"
    /\ IF api_i = api_files
       THEN /\ api_pc' = "final"
            /\ UNCHANGED <<api_i, api_sink>>
       ELSE /\ api_i' = api_i + 1
            /\ api_sink' = IF skipped THEN api_sink + 1 ELSE api_sink
            /\ api_pc' = IF skipped THEN "file" ELSE "normalize"
    /\ UNCHANGED <<api_files, api_bufs, write_failed, late_work>>
    /\ UNCHANGED storeVars
    /\ UNCHANGED apiOthers

\* Lines 197-207 and 229-247: builder b over the current file, n items, inside
\* its try/except Exception, which turns any exception into an UNKNOWN anomaly.
ApiBuilder(b, n, mode) ==
    /\ api_pc = b
    /\ next_row + n <= MaxRows
    /\ LET items == [k \in 1..n |-> [table |-> TableOf(b), id |-> next_row + k]]
           r == builder_loop(store, api_bufs, b, items, mode)
       IN  /\ store' = r.st
           /\ api_bufs' = r.bufs
           /\ raised' = r.raised
           /\ api_sink' = IF r.raised # NoRaise THEN api_sink + 1 ELSE api_sink
           /\ write_failed' = (write_failed \/ r.raised # NoRaise)
    /\ late_work' = IF write_failed THEN late_work + 1 ELSE late_work
    /\ next_row' = next_row + n
    /\ api_pc' = IF b = "normalize" THEN "dfg" ELSE "periodic"
    /\ UNCHANGED <<api_files, api_i, out_dir, backup, pub>>
    /\ UNCHANGED apiOthers

\* Lines 289-297: the periodic flush after every flush_every_n_files-th file.
ApiPeriodic(fault) ==
    /\ api_pc = "periodic"
    /\ IF api_i % Max(1, flush_every_n_files) = 0
       THEN LET r == flush_point(store, api_bufs, api_sink, fault) IN
            /\ store' = r.st
            /\ api_bufs' = r.bufs
            /\ raised' = r.raised
            /\ write_failed' = (write_failed \/ r.raised # NoRaise)
            /\ api_pc' = IF r.raised # NoRaise /\ r.propagates THEN "raised" ELSE "file"
       ELSE /\ api_pc' = "file"
            /\ UNCHANGED <<store, api_bufs, raised, write_failed>>
    /\ UNCHANGED <<api_files, api_i, api_sink, late_work, next_row, out_dir, backup, pub>>
    /\ UNCHANGED apiOthers

\* Lines 299-305: the final flush.
ApiFinal(fault) ==
    /\ api_pc = "final"
    /\ LET r == flush_point(store, api_bufs, api_sink, fault) IN
       /\ store' = r.st
       /\ api_bufs' = r.bufs
       /\ raised' = r.raised
       /\ write_failed' = (write_failed \/ r.raised # NoRaise)
       /\ api_pc' = IF r.raised # NoRaise /\ r.propagates THEN "raised" ELSE "finalize"
    /\ UNCHANGED <<api_files, api_i, api_sink, late_work, next_row, out_dir, backup, pub>>
    /\ UNCHANGED apiOthers

\* Lines 307-313: store.finalize(receipt), up to _atomic_publish.
ApiFinalize(bad) ==
    /\ api_pc = "finalize"
    /\ LET r == finalize(store, bad, IF bad = "none" THEN "ok" ELSE "io_error") IN
       /\ store' = r.st
       /\ raised' = r.raised
       /\ write_failed' = (write_failed \/ r.raised # NoRaise)
       /\ pub' = IF r.raised = NoRaise THEN "publish" ELSE pub
       /\ api_pc' = IF r.raised = NoRaise THEN "publishing" ELSE "raised"
    /\ UNCHANGED <<api_files, api_i, api_bufs, api_sink, late_work, next_row, out_dir, backup>>
    /\ UNCHANGED apiOthers

\* How many times the store holds row `id` of table t, in the buffer and in
\* the files written to staging.
Occurrences(t, id) ==
    Cardinality({k \in DOMAIN store.buf[t] : store.buf[t][k] = id})
      + Cardinality(UNION {{<<f, k>> : k \in {j \in DOMAIN f.rows : f.rows[j] = id}} :
                              f \in {g \in store.staging : g.path.table = t}})

\* C9: once a store write has failed, build_ucg_for_files has raised: no
\* builder runs after the failure, no builder row is held twice by the store,
\* and out_dir is not published.
C9_WriteFailureStopsRun ==
    /\ write_failed => api_pc = "raised"
    /\ late_work = 0
    /\ \A b \in Builders : \A id \in 1..MaxRows : Occurrences(TableOf(b), id) <= 1
    /\ write_failed => out_dir # "new"

-----------------------------------------------------------------------------
(***************************************************************************)
(* CFG builder: CfgBuilder.build                                           *)
(***************************************************************************)

\* Bounds of the CFG model
MaxCfgPos == 5

MaxCfgDepth == 3

\* CfgConfig.max_blocks_per_func, scaled down.
max_blocks_per_func == 6

\* The node types of the stream, one per class of cfg._Adapter: constructs
\* with children, and statements delivered as an ENTER directly followed by
\* their EXIT.
CfgContainers == {"function", "if", "loop", "try"}

CfgLeaves == {"return", "throw", "stmt"}

_is_predicate(t) == t \in {"if", "loop"}

_has_dual_outcomes(t) == t = "if"

_matches_close(open_t, close_t) == open_t = close_t

_is_try_related(t) == t = "try"

CstEvent(kind, type, byte_start, byte_end) ==
    [kind |-> kind, type |-> type, byte_start |-> byte_start, byte_end |-> byte_end]

\* _stable_id(salt, "block", path, blob, func_id, tag): the hash of its
\* parts, here the parts that vary within one file.
block_id(func_id, tag, a, b) == <<func_id, tag, a, b>>

\* new_block_id(func_id, idx): the tag is str(idx).
new_block_id(func_id, idx) == block_id(func_id, "idx", idx, 0)

\* A BlockRow. `under` is not a column: it records the index of the predicate
\* on top of ctrl_stack when the row was made, -1 if none.
BlockRow(id, func, kind, under) ==
    [id |-> id, func_id |-> func.func_id, kind |-> kind, index |-> func.next_index,
     under |-> under]

CfgEdgeRow(func, kind, src, dst) ==
    [func_id |-> func.func_id, kind |-> kind, src_block_id |-> src, dst_block_id |-> dst]

\* A counter update that forgets the index.
BumpCountOnly(func, n) == [func EXCEPT !.block_count = @ + n]

\* func.next_index += 1; func.block_count += 1, n times.
Bump(func, n) == [func EXCEPT !.next_index = @ + n, !.block_count = @ + n]

Under(func) ==
    IF func.ctrl_stack = <<>> THEN -1 ELSE Top(func.ctrl_stack).pred_id[3]

\* The builder after the top function became `func` and the rows were yielded.
Yield(b, func, blocks, edges) ==
    [b EXCEPT !.func_stack = SetTop(@, func),
              !.blocks = @ \o blocks,
              !.edges = @ \o edges]

\* Lines 243-259: ENTER of a function node.
open_function(b, ev) ==
    LET state == [func_id |-> ev.byte_start, current_block_id |-> <<>>,
                  next_index |-> 0, block_count |-> 0, ctrl_stack |-> <<>>]
        b_entry == BlockRow(new_block_id(state.func_id, 0), state, "entry", -1)
    IN  [b EXCEPT !.func_stack = Append(@, [Bump(state, 1) EXCEPT
                                               !.current_block_id = b_entry.id]),
                  !.blocks = Append(@, b_entry)]

\* Lines 268-284: the block guard.
overflow(b, func) ==
    LET b_exit == BlockRow(block_id(func.func_id, "exit_overflow", 0, 0), func, "exit",
                           Under(func))
    IN  [b EXCEPT !.func_stack = Pop(@),
                  !.blocks = Append(@, b_exit),
                  !.edges = Append(@, CfgEdgeRow(func, "next", func.current_block_id,
                                                 b_exit.id)),
                  !.anoms = Append(@, func.func_id)]

\* Lines 288-295: ENTER of if/while/for/switch. The PREDICATE row is made by
\* block_row but not yielded.
enter_predicate(b, func, ev) ==
    LET b_pred == BlockRow(new_block_id(func.func_id, func.next_index), func,
                           "predicate", Under(func))
        f1 == Bump(func, 1)
    IN  Yield(b, [f1 EXCEPT !.current_block_id = b_pred.id,
                            !.ctrl_stack = Append(@, [type |-> ev.type,
                                                      pred_id |-> b_pred.id])],
              <<>>,
              IF func.current_block_id # b_pred.id
              THEN <<CfgEdgeRow(func, "next", func.current_block_id, b_pred.id)>>
              ELSE <<>>)

\* Lines 297-314: ENTER of return (edge kind "return") or throw ("exception").
enter_jump(b, func, kind) ==
    LET b_body == BlockRow(new_block_id(func.func_id, func.next_index), func, "body",
                           Under(func))
        f1 == Bump(func, 1)
        b_exit == BlockRow(new_block_id(f1.func_id, f1.next_index), f1, "exit",
                           Under(func))
        f2 == Bump(f1, 1)
    IN  Yield(b, [f2 EXCEPT !.current_block_id = b_exit.id],
              <<b_body, b_exit>>,
              <<CfgEdgeRow(func, "next", func.current_block_id, b_body.id),
                CfgEdgeRow(func, kind, b_body.id, b_exit.id)>>)

\* A close that yields the EXIT block without an edge to it.
close_edges_none(func, exit_id) == <<>>

\* Lines 330-331.
close_edges(func, exit_id) ==
    IF func.current_block_id # exit_id
    THEN <<CfgEdgeRow(func, "next", func.current_block_id, exit_id)>>
    ELSE <<>>

\* Lines 321-333: EXIT of a function node closes the function on top of the
\* stack.
close_function(b, func) ==
    LET b_exit == BlockRow(block_id(func.func_id, "exit", 0, 0), func, "exit", Under(func))
    IN  [b EXCEPT !.func_stack = Pop(@),
                  !.blocks = Append(@, b_exit),
                  !.edges = @ \o close_edges(func, b_exit.id)]

\* Lines 336-388: EXIT of the construct on top of ctrl_stack.
resolve_predicate(b, func, ev) ==
    LET top == Top(func.ctrl_stack)
        pred_id == top.pred_id
        popped == [func EXCEPT !.ctrl_stack = Pop(@)]
        under == Under(func)
    IN  IF _has_dual_outcomes(top.type)
        THEN LET b_true == BlockRow(block_id(func.func_id, "true", pred_id[3], ev.byte_end),
                                    popped, "body", under)
                 f1 == Bump(popped, 1)
                 b_false == BlockRow(block_id(func.func_id, "false", pred_id[3], ev.byte_end),
                                     f1, "body", under)
                 f2 == Bump(f1, 1)
                 b_merge == BlockRow(block_id(func.func_id, "merge", 0, ev.byte_end),
                                     f2, "body", under)
                 f3 == Bump(f2, 1)
             IN  Yield(b, [f3 EXCEPT !.current_block_id = b_merge.id],
                       <<b_true, b_false, b_merge>>,
                       <<CfgEdgeRow(func, "true", pred_id, b_true.id),
                         CfgEdgeRow(func, "false", pred_id, b_false.id),
                         CfgEdgeRow(func, "next", b_true.id, b_merge.id),
                         CfgEdgeRow(func, "next", b_false.id, b_merge.id)>>)
        ELSE LET b_body == BlockRow(block_id(func.func_id, "loop_body", pred_id[3],
                                             ev.byte_end), popped, "body", under)
                 f1 == Bump(popped, 1)
                 b_after == BlockRow(block_id(func.func_id, "after_loop", 0, ev.byte_end),
                                     f1, "body", under)
                 f2 == Bump(f1, 1)
             IN  Yield(b, [f2 EXCEPT !.current_block_id = b_after.id],
                       <<b_body, b_after>>,
                       <<CfgEdgeRow(func, "true", pred_id, b_body.id),
                         CfgEdgeRow(func, "false", pred_id, b_after.id),
                         CfgEdgeRow(func, "next", b_body.id, pred_id)>>)

\* Lines 391-410: EXIT of try/catch/finally.
exit_try(b, func, ev) ==
    LET b_handler == BlockRow(block_id(func.func_id, "handler", 0, ev.byte_end), func,
                              "handler", Under(func))
        f1 == Bump(func, 1)
        b_after == BlockRow(block_id(func.func_id, "after_handler", 0, ev.byte_end), f1,
                            "body", Under(func))
        f2 == Bump(f1, 1)
    IN  Yield(b, [f2 EXCEPT !.current_block_id = b_after.id],
              <<b_handler, b_after>>,
              <<CfgEdgeRow(func, "exception", func.current_block_id, b_handler.id),
                CfgEdgeRow(func, "next", b_handler.id, b_after.id)>>)

\* Lines 241-410: one iteration of `for ev in ps.events`.
cfg_event(b, ev) ==
    IF ev.kind = "ENTER" /\ ev.type = "function" THEN open_function(b, ev)
    ELSE IF b.func_stack = <<>> THEN b
    ELSE LET func == Top(b.func_stack) IN
         IF func.block_count > max_blocks_per_func THEN overflow(b, func)
         ELSE IF ev.kind = "ENTER"
         THEN IF _is_predicate(ev.type) THEN enter_predicate(b, func, ev)
              ELSE IF ev.type = "return" THEN enter_jump(b, func, "return")
              ELSE IF ev.type = "throw" THEN enter_jump(b, func, "exception")
              ELSE b
         ELSE IF ev.type = "function" THEN close_function(b, func)
              ELSE IF /\ func.ctrl_stack # <<>>
                      /\ _matches_close(Top(func.ctrl_stack).type, ev.type)
              THEN resolve_predicate(b, func, ev)
              ELSE IF _is_try_related(ev.type) THEN exit_try(b, func, ev)
              ELSE b

\* Lines 413-432: at the end of the stream every function still on the stack
\* gets a synthetic EXIT and a NEXT edge from its current block.
RECURSIVE synth_exits(_)
synth_exits(b) ==
    IF b.func_stack = <<>> THEN b
    ELSE LET func == Top(b.func_stack)
             b_exit == BlockRow(block_id(func.func_id, "exit_synth", 0, 0), func, "exit",
                                Under(func))
         IN  synth_exits([b EXCEPT !.func_stack = Pop(@),
                                   !.blocks = Append(@, b_exit),
                                   !.edges = Append(@, CfgEdgeRow(func, "next",
                                                 func.current_block_id, b_exit.id))])

CfgInit ==
    /\ cOpen = <<>>
    /\ cPos = 0
    /\ cfg = [func_stack |-> <<>>, blocks |-> <<>>, edges |-> <<>>, anoms |-> <<>>]
    /\ cRun = "run"

CfgIdle ==
    /\ cOpen = <<>>
    /\ cPos = 0
    /\ cfg = [func_stack |-> <<>>, blocks |-> <<>>, edges |-> <<>>, anoms |-> <<>>]
    /\ cRun = "idle"

\* The driver enters a construct of type t at the current offset.
CfgEnter(t) ==
    /\ cRun = "run"
    /\ cPos < MaxCfgPos
    /\ Len(cOpen) < MaxCfgDepth
    /\ cfg' = cfg_event(cfg, CstEvent("ENTER", t, cPos, cPos))
    /\ cOpen' = Append(cOpen, t)
    /\ cPos' = cPos + 1
    /\ UNCHANGED cRun
    /\ UNCHANGED cfgOthers

\* The driver delivers a statement of type t: its ENTER, then its EXIT.
CfgLeaf(t) ==
    /\ cRun = "run"
    /\ cPos < MaxCfgPos
    /\ cfg' = Only({cfg_event(b1, CstEvent("EXIT", t, cPos, cPos + 1))
                    : b1 \in {cfg_event(cfg, CstEvent("ENTER", t, cPos, cPos + 1))}})
    /\ cPos' = cPos + 1
    /\ UNCHANGED <<cOpen, cRun>>
    /\ UNCHANGED cfgOthers

\* The driver leaves the innermost open construct, which ends at the current
\* offset or, with a closing token, one byte later.
CfgExit(gap) ==
    /\ cRun = "run"
    /\ cOpen # <<>>
    /\ cPos + gap <= MaxCfgPos
    /\ cfg' = cfg_event(cfg, CstEvent("EXIT", Top(cOpen), cPos, cPos + gap))
    /\ cOpen' = Pop(cOpen)
    /\ cPos' = cPos + gap
    /\ UNCHANGED cRun
    /\ UNCHANGED cfgOthers

\* The stream ends, complete or cut short.
CfgEof ==
    /\ cRun = "run"
    /\ cfg' = synth_exits(cfg)
    /\ cRun' = "done"
    /\ UNCHANGED <<cOpen, cPos>>
    /\ UNCHANGED cfgOthers

CfgBlocksOf(f) == {i \in 1..Len(cfg.blocks) : cfg.blocks[i].func_id = f}

CfgEdgesOf(f) == {e \in Range(cfg.edges) : e.func_id = f}

\* The functions the builder has opened, and those it has closed.
OpenedFuncs == {cfg.blocks[i].func_id : i \in {j \in 1..Len(cfg.blocks) : cfg.blocks[j].kind = "entry"}}

ClosedFuncs == OpenedFuncs \ {cfg.func_stack[k].func_id : k \in 1..Len(cfg.func_stack)}

\* The block ids reachable from the ids in S along the edges in E.
RECURSIVE ReachableFrom(_, _)
ReachableFrom(S, E) ==
    LET N == S \cup {e.dst_block_id : e \in {x \in E : x.src_block_id \in S}}
    IN  IF N = S THEN S ELSE ReachableFrom(N, E)

ExitReachable(f) ==
    \E i \in CfgBlocksOf(f) :
        /\ cfg.blocks[i].kind = "exit"
        /\ cfg.blocks[i].id \in ReachableFrom({new_block_id(f, 0)}, CfgEdgesOf(f))

\* C12: every function the builder has closed, by the function's EXIT event,
\* by the block guard or by the synthetic EXIT at the end of the stream, has
\* an emitted EXIT block reachable from its ENTRY block along emitted edges.
C12_ExitReachable ==
    \A f \in ClosedFuncs : ExitReachable(f)

\* A function with a return was still open at the end of the stream and was
\* closed by the synthetic EXIT.
C12_Witness ==
    /\ cRun = "done"
    /\ \E i \in 1..Len(cfg.blocks) :
          /\ cfg.blocks[i].id[2] = "exit_synth"
          /\ \E e \in CfgEdgesOf(cfg.blocks[i].func_id) : e.kind = "return"
          /\ \E e \in CfgEdgesOf(cfg.blocks[i].func_id) : e.kind = "true"

\* C13: the blocks emitted for one function carry strictly increasing index
\* values in emission order.
C13_IndexIncreasing ==
    \A i, j \in 1..Len(cfg.blocks) :
        i < j /\ cfg.blocks[i].func_id = cfg.blocks[j].func_id
            => cfg.blocks[i].index < cfg.blocks[j].index

\* A function closed by its EXIT after a return or throw and a handler, or
\* after a control construct and a handler.
C13_Witness ==
    \E f \in ClosedFuncs :
        /\ \E i \in CfgBlocksOf(f) : cfg.blocks[i].id[2] = "exit"
        /\ \E i \in CfgBlocksOf(f) : cfg.blocks[i].kind = "handler"
        /\ \/ \E i \in CfgBlocksOf(f) : cfg.blocks[i].id[2] \in {"merge", "after_loop"}
           \/ \E e \in CfgEdgesOf(f) : e.kind \in {"return", "exception"}

\* The arms of the closed if whose predicate has index p in function f.
ArmsOf(f, p) ==
    {e.dst_block_id : e \in {x \in CfgEdgesOf(f) :
        x.kind \in {"true", "false"} /\ x.src_block_id = new_block_id(f, p)}}

\* C14: for a closed if, exactly one PREDICATE block row is emitted, and a
\* return made inside the if has its RETURN edge issued from an arm of the if.
C14_IfArms ==
    \A e \in Range(cfg.edges) :
        e.kind = "true" /\ e.dst_block_id[2] = "true" =>
            /\ Cardinality({i \in CfgBlocksOf(e.func_id) :
                    /\ cfg.blocks[i].kind = "predicate"
                    /\ cfg.blocks[i].id = e.src_block_id}) = 1
            /\ \A i \in CfgBlocksOf(e.func_id) :
                   /\ cfg.blocks[i].under = e.src_block_id[3]
                   /\ \E r \in CfgEdgesOf(e.func_id) :
                          r.kind = "return" /\ r.src_block_id = cfg.blocks[i].id
                   => cfg.blocks[i].id \in ArmsOf(e.func_id, e.src_block_id[3])

\* The functions the block guard has aborted, and the rows of a function that
\* the guard itself emitted.
OverflowedFuncs == Range(cfg.anoms)

OverflowBlocks(f) == {i \in CfgBlocksOf(f) : cfg.blocks[i].id[2] = "exit_overflow"}

\* C31: a function has at most max_blocks_per_func blocks besides the block
\* of the guard; a function the guard aborted has one MEMORY_LIMIT anomaly
\* and one exit_overflow EXIT block, which is its last block and the target
\* of a NEXT edge, and no block of a function is an exit_overflow block
\* without the anomaly.
C31_BlockCapEnforced ==
    \A f \in OpenedFuncs :
        /\ Cardinality(CfgBlocksOf(f) \ OverflowBlocks(f)) <= max_blocks_per_func
        /\ Cardinality({k \in 1..Len(cfg.anoms) : cfg.anoms[k] = f})
              = Cardinality(OverflowBlocks(f))
        /\ Cardinality(OverflowBlocks(f)) <= 1
        /\ \A i \in OverflowBlocks(f) :
              /\ \A j \in CfgBlocksOf(f) : j <= i
              /\ \E e \in CfgEdgesOf(f) :
                    e.kind = "next" /\ e.dst_block_id = cfg.blocks[i].id

\* The ids of the block rows emitted for function f.
EmittedBlockIds(f) == {cfg.blocks[i].id : i \in CfgBlocksOf(f)}

\* C38: in the complete output, both ends of every edge are ids of block
\* rows emitted for the edge's function.
C38_EdgeEndsAreEmittedBlocks ==
    cRun = "done" =>
        \A e \in Range(cfg.edges) :
            /\ e.src_block_id \in EmittedBlockIds(e.func_id)
            /\ e.dst_block_id \in EmittedBlockIds(e.func_id)

\* C40: block ids are unique keys: no two block rows emitted for a file
\* share an id.
C40_BlockIdsUnique ==
    \A i, j \in 1..Len(cfg.blocks) :
        i # j => cfg.blocks[i].id # cfg.blocks[j].id

-----------------------------------------------------------------------------
(***************************************************************************)
(* Symbols builder: symbols.build_symbols over one ParseStream (JS/TS)     *)
(***************************************************************************)

MaxSymEvents == 6

MaxSymDepth == 3

\* SymbolsConfig.max_scope_depth, scaled down: the module scope and one more.
sym_max_scope_depth == 2

\* _Adapter._init_sets (JS/TS): one node type of each set, and a node type
\* that is in none of them.
function_nodes == {"function_declaration"}

class_nodes == {"class_declaration"}

assign_nodes == {"variable_declarator"}

import_nodes == {"import_declaration"}

export_nodes == {"export_statement"}

SymNodeTypes ==
    function_nodes \cup class_nodes \cup assign_nodes \cup import_nodes
        \cup export_nodes \cup {"statement_block"}

\* The names _parse_import_like / _parse_export_like read off a span, and
\* the fallbacks used when they find none.
ImportNames == Names \cup {"<import>"}

ExportNames == Names \cup {"<export>"}

\* _stable_id over its parts: the digest is modelled by the record of parts.
\* A parent scope id enters as the byte_start of that scope, which names it
\* within one file.
mod_scope_id ==
    [tag |-> "module", parent |-> -1, kind |-> "module", name |-> "m", byte |-> 0]

root_scope_id ==
    [tag |-> "root", parent |-> -1, kind |-> "root", name |-> "", byte |-> 0]

\* _scope_id: parent is the top of scope_stack, "" (here -2) when it is empty.
_scope_id(stack, kind, name, byte_start) ==
    [tag |-> "scope",
     parent |-> IF stack = <<>> THEN -2 ELSE stack[Len(stack)].id.byte,
     kind |-> kind, name |-> name, byte |-> byte_start]

\* The id _symbol_row computes.
symbol_row_id(scope_id, name, kind, byte_start) ==
    [tag |-> "symbol", scope |-> scope_id, name |-> name, kind |-> kind,
     byte |-> byte_start]

\* The empty target_symbol_id "".
NoSymbol == symbol_row_id(root_scope_id, "", "none", -1)

\* _symbol_row; assign is the innermost assignment node open in the walk (0
\* for none), which is provenance, not a field of the row.
_symbol_row(scope_id, name, kind, byte_start, assign) ==
    [id |-> symbol_row_id(scope_id, name, kind, byte_start), scope_id |-> scope_id,
     name |-> name, kind |-> kind, byte |-> byte_start, assign |-> assign]

\* _alias_row; after is the number of SymbolRows yielded before it.
_alias_row(alias_kind, alias_id, target_symbol_id, alias_name, byte_start, after) ==
    [alias_kind |-> alias_kind, alias_id |-> alias_id,
     target_symbol_id |-> target_symbol_id, alias_name |-> alias_name,
     byte |-> byte_start, after |-> after]

\* st.sym_index[(scope_id, name)] = id: a dict, so the last write wins.
IndexSet(sym_index, scope_id, name, id) ==
    {e \in sym_index : ~(e.scope = scope_id /\ e.name = name)}
        \cup {[scope |-> scope_id, name |-> name, id |-> id]}

\* An export that names a variable of the scope without looking it up.
IndexGuess(sym_index, scope_id, name) ==
    symbol_row_id(scope_id, name, "variable", 0)

\* st.sym_index.get((scope_id, name), "").
IndexGet(sym_index, scope_id, name) ==
    IF \E e \in sym_index : e.scope = scope_id /\ e.name = name
    THEN (CHOOSE e \in sym_index : e.scope = scope_id /\ e.name = name).id
    ELSE NoSymbol

\* _BuildState after lines 219-232: the module scope is pushed and the module
\* symbol yielded.
BuildState ==
    [scope_stack |-> <<[id |-> mod_scope_id, kind |-> "module"]>>,
     sym_index |-> {},
     in_params |-> FALSE,
     open_assign_bytes |-> <<>>,
     symbols |-> <<_symbol_row(mod_scope_id, "m", "module", 0, 0)>>,
     aliases |-> <<>>,
     anoms |-> 0]

\* The innermost assignment node open in the walk, 0 for none.
RECURSIVE SymInnermostAssign(_)
SymInnermostAssign(open) ==
    IF open = <<>> THEN 0
    ELSE IF open[Len(open)].t \in assign_nodes THEN open[Len(open)].at
    ELSE SymInnermostAssign(SubSeq(open, 1, Len(open) - 1))

\* _yield_decl_and_push: refused with a MEMORY_LIMIT anomaly at the depth
\* limit; otherwise the declaration's symbol goes into the parent scope and
\* the new scope is pushed.
_yield_decl_and_push(b, name, kind, scope_id, byte_start, assign) ==
    IF Len(b.scope_stack) >= sym_max_scope_depth
    THEN [b EXCEPT !.anoms = @ + 1]
    ELSE [b EXCEPT
            !.symbols = Append(@,
                _symbol_row(IF b.scope_stack = <<>> THEN root_scope_id
                            ELSE b.scope_stack[Len(b.scope_stack)].id,
                            name, kind, byte_start, assign)),
            !.scope_stack = Append(@, [id |-> scope_id, kind |-> kind])]

\* Lines 237-262: ENTER of a node of type t at byte_start.
sym_enter(b, t, byte_start, assign) ==
    IF t \in class_nodes
    THEN _yield_decl_and_push(b, "<class>", "class",
             _scope_id(b.scope_stack, "class", "<class>", byte_start),
             byte_start, assign)
    ELSE IF t \in function_nodes
    THEN LET parent_kind == IF b.scope_stack = <<>> THEN "module"
                            ELSE b.scope_stack[Len(b.scope_stack)].kind
             sym_kind == IF parent_kind = "class" THEN "method" ELSE "function"
         IN  [_yield_decl_and_push(b, "<lambda>", sym_kind,
                  _scope_id(b.scope_stack, sym_kind, "<lambda>", byte_start),
                  byte_start, assign)
              EXCEPT !.in_params = TRUE]
    ELSE IF t \in assign_nodes
    THEN [b EXCEPT !.open_assign_bytes = Append(@, byte_start)]
    ELSE b

\* A symbol of the given kind bound in the current scope and indexed.
bind(b, name, kind, byte_start, assign) ==
    LET scope == b.scope_stack[Len(b.scope_stack)].id
        srow == _symbol_row(scope, name, kind, byte_start, assign)
    IN  [b EXCEPT !.sym_index = IndexSet(@, scope, name, srow.id),
                  !.symbols = Append(@, srow)]

\* Lines 264-290: an identifier TOKEN handled as a parameter or as a name
\* inside an open assignment; the others are passed over.
TokenBinds(b) == b.in_params \/ b.open_assign_bytes # <<>>

sym_token(b, name, byte_start, assign) ==
    IF b.in_params THEN bind(b, name, "param", byte_start, assign)
    ELSE IF b.open_assign_bytes # <<>>
    THEN bind(b, name, "variable", byte_start, assign)
    ELSE b

\* Lines 317-334: EXIT of an import: IMPORT symbol and a DYNAMIC alias.
sym_import(b, nm, byte_start, assign) ==
    Only({ [r EXCEPT !.aliases = Append(@,
                _alias_row("dynamic", r.symbols[Len(r.symbols)].id, NoSymbol, nm,
                           byte_start, Len(r.symbols)))]
           : r \in {bind(b, nm, "import", byte_start, assign)} })

\* Lines 336-355: EXIT of an export: EXPORT symbol, then a REEXPORT alias to
\* the symbol the scope's index holds for the name, or a DYNAMIC alias.
sym_export(b, ename, byte_start, assign) ==
    LET scope == b.scope_stack[Len(b.scope_stack)].id
        srow == _symbol_row(scope, ename, "export", byte_start, assign)
        tgt == IndexGet(b.sym_index, scope, ename)
        kind == IF tgt # NoSymbol THEN "reexport" ELSE "dynamic"
    IN  [b EXCEPT !.symbols = Append(@, srow),
                  !.aliases = Append(@,
                      _alias_row(kind, srow.id, tgt, ename, byte_start,
                                 Len(b.symbols) + 1))]

\* Lines 292-314: EXIT of an assignment, a function or a class.
sym_close(b, t) ==
    IF b.open_assign_bytes # <<>> /\ t \in assign_nodes
    THEN [b EXCEPT !.open_assign_bytes = Pop(@)]
    ELSE IF t \in function_nodes
    THEN [b EXCEPT !.in_params = FALSE,
                   !.scope_stack = IF @ = <<>> THEN @ ELSE Pop(@)]
    ELSE IF t \in class_nodes
    THEN [b EXCEPT !.scope_stack = IF @ = <<>> THEN @ ELSE Pop(@)]
    ELSE b

SymInit ==
    /\ sOpen = <<>>
    /\ sPos = 0
    /\ symst = BuildState
    /\ sRun = "run"

SymIdle ==
    /\ sOpen = <<>>
    /\ sPos = 0
    /\ symst = BuildState
    /\ sRun = "idle"

\* ENTER of a node of type t.
SymEnter(t) ==
    /\ sRun = "run"
    /\ sPos < MaxSymEvents
    /\ Len(sOpen) < MaxSymDepth
    /\ sPos' = sPos + 1
    /\ sOpen' = Append(sOpen, [t |-> t, at |-> sPos + 1])
    /\ symst' = sym_enter(symst, t, sPos + 1, SymInnermostAssign(sOpen))
    /\ sRun' = sRun
    /\ UNCHANGED symOthers

\* An identifier TOKEN named n. st.scope_stack[-1] raises IndexError when a
\* refused declaration's EXIT has popped the module scope.
SymToken(n) ==
    /\ sRun = "run"
    /\ sPos < MaxSymEvents
    /\ sPos' = sPos + 1
    /\ UNCHANGED sOpen
    /\ IF TokenBinds(symst) /\ symst.scope_stack = <<>>
       THEN sRun' = "raised" /\ symst' = symst
       ELSE sRun' = sRun
            /\ symst' = sym_token(symst, n, sPos + 1, SymInnermostAssign(sOpen))
    /\ UNCHANGED symOthers

\* EXIT of the innermost open node when it is no import and no export.
SymExit ==
    /\ sRun = "run"
    /\ sPos < MaxSymEvents
    /\ sOpen # <<>>
    /\ Top(sOpen).t \notin import_nodes \cup export_nodes
    /\ sPos' = sPos + 1
    /\ sOpen' = Pop(sOpen)
    /\ symst' = sym_close(symst, Top(sOpen).t)
    /\ sRun' = sRun
    /\ UNCHANGED symOthers

\* EXIT of an import whose span reads as the binding nm.
SymExitImport(nm) ==
    /\ sRun = "run"
    /\ sPos < MaxSymEvents
    /\ sOpen # <<>>
    /\ Top(sOpen).t \in import_nodes
    /\ sPos' = sPos + 1
    /\ sOpen' = Pop(sOpen)
    /\ IF symst.scope_stack = <<>>
       THEN sRun' = "raised" /\ symst' = symst
       ELSE sRun' = sRun
            /\ symst' = sym_import(symst, nm, Top(sOpen).at, SymInnermostAssign(Pop(sOpen)))
    /\ UNCHANGED symOthers

\* EXIT of an export whose span reads as the name ename.
SymExitExport(ename) ==
    /\ sRun = "run"
    /\ sPos < MaxSymEvents
    /\ sOpen # <<>>
    /\ Top(sOpen).t \in export_nodes
    /\ sPos' = sPos + 1
    /\ sOpen' = Pop(sOpen)
    /\ IF symst.scope_stack = <<>>
       THEN sRun' = "raised" /\ symst' = symst
       ELSE sRun' = sRun
            /\ symst' = sym_export(symst, ename, Top(sOpen).at, SymInnermostAssign(Pop(sOpen)))
    /\ UNCHANGED symOthers

\* Lines 357-359: the events are exhausted; dangling scopes are popped.
SymEof ==
    /\ sRun = "run"
    /\ sOpen = <<>>
    /\ sRun' = "done"
    /\ symst' = [symst EXCEPT !.scope_stack = <<>>]
    /\ UNCHANGED <<sOpen, sPos>>
    /\ UNCHANGED symOthers

SymAliases(kind) == {k \in 1..Len(symst.aliases) : symst.aliases[k].alias_kind = kind}

\* The identifier symbols bound inside assignment s, in event order.
SymRowsIn(s) ==
    {i \in 1..Len(symst.symbols) :
        symst.symbols[i].assign = s /\ symst.symbols[i].kind \in {"variable", "param"}}

SymClosedAssigns ==
    {symst.symbols[i].assign : i \in 1..Len(symst.symbols)}
        \ ({0} \cup {sOpen[k].at : k \in 1..Len(sOpen)})

Least(S) == CHOOSE x \in S : \A y \in S : x <= y

Greatest(S) == CHOOSE x \in S : \A y \in S : y <= x

\* Rows that bound the name of row r in r's scope before row l.
KnownBefore(l, r) ==
    {j \in 1..(l - 1) :
        /\ symst.symbols[j].scope_id = symst.symbols[r].scope_id
        /\ symst.symbols[j].name = symst.symbols[r].name
        /\ symst.symbols[j].kind \in {"variable", "param", "import"}}

\* C18: once an assignment b = a between two single identifiers has been
\* left, a having had a symbol in the scope before it, exactly one AliasRow of
\* kind assign with alias_name b and a symbol of a as its target has been
\* yielded.
C18_AssignAlias ==
    \A s \in SymClosedAssigns :
        Cardinality(SymRowsIn(s)) = 2 =>
            LET l == Least(SymRowsIn(s))
                r == Greatest(SymRowsIn(s))
            IN  ( /\ symst.symbols[l].name # symst.symbols[r].name
                  /\ KnownBefore(l, r) # {} )
                => Cardinality({k \in SymAliases("assign") :
                        /\ symst.aliases[k].alias_name = symst.symbols[l].name
                        /\ \E j \in KnownBefore(l, r) \cup {r} :
                               symst.aliases[k].target_symbol_id = symst.symbols[j].id}) = 1

\* C19: every AliasRow whose kind is not dynamic has a target_symbol_id that is
\* not empty and is the id of a SymbolRow yielded before the alias.
C19_AliasTargetEmitted ==
    \A k \in 1..Len(symst.aliases) :
        symst.aliases[k].alias_kind # "dynamic" =>
            /\ symst.aliases[k].target_symbol_id # NoSymbol
            /\ \E j \in 1..symst.aliases[k].after :
                   symst.symbols[j].id = symst.aliases[k].target_symbol_id

\* An export of a name the scope has bound (a REEXPORT alias to a symbol that
\* is not the EXPORT symbol itself) beside an alias left dynamic.
C19_Witness ==
    /\ \E k \in SymAliases("reexport") :
           \E j \in 1..(symst.aliases[k].after - 1) :
               /\ symst.symbols[j].id = symst.aliases[k].target_symbol_id
               /\ symst.symbols[j].kind \in {"variable", "param", "import"}
    /\ SymAliases("dynamic") # {}

-----------------------------------------------------------------------------
(***************************************************************************)
(* Event validation: ParserRegistry._validated_event_stream feeding        *)
(* Normalizer._validate_event                                              *)
(***************************************************************************)

MaxValEvents == 2

\* The fields of a CstEvent that the two validators read.
ValBytes == {-1, 0, 1}

ValLineStarts == {-1, 0, 1}

ValLineEnds == {0, 1}

ValTypes == {"", "identifier"}

ValEvents ==
    [byte_start : ValBytes, byte_end : ValBytes, line_start : ValLineStarts,
     line_end : ValLineEnds, type : ValTypes]

\* _validated_event_stream: the ParserError code it raises on an event,
\* "none" when it yields the event.
registry_defect(ev) ==
    IF ev.byte_start < 0 \/ ev.byte_end < 0 \/ ev.line_start < 0 \/ ev.line_end < 0
    THEN "INVALID_SPAN_NEGATIVE"
    ELSE IF ev.byte_end < ev.byte_start \/ ev.line_end < ev.line_start
    THEN "INVALID_SPAN_ORDER"
    ELSE IF ev.type = "" THEN "MISSING_NODE_TYPE"
    ELSE "none"

\* Normalizer._validate_event: FALSE (with an UNKNOWN anomaly) for a bad byte
\* range or a bad line range.
_validate_event(ev) ==
    /\ ~(ev.byte_start < 0 \/ ev.byte_end < ev.byte_start)
    /\ ~(ev.line_start < 1 \/ ev.line_end < ev.line_start)

\* The events of one file; validate_events tells whether they pass through
\* the registry's wrapper (ParserConfig.validate_events) before the normalizer
\* reads them.
ValInit ==
    /\ vIn \in UNION {[1..n -> ValEvents] : n \in 1..MaxValEvents}
    /\ validate_events \in BOOLEAN
    /\ vPos = 0
    /\ vOut = [processed |-> <<>>, anoms |-> 0, raised |-> "none"]

ValIdle ==
    /\ vIn = <<>>
    /\ validate_events = FALSE
    /\ vPos = 0
    /\ vOut = [processed |-> <<>>, anoms |-> 0, raised |-> "idle"]

ValRunning == vOut.raised = "none" /\ vPos < Len(vIn)

\* The wrapper raises ParserError inside the consumer's for loop: the
\* generator is finished and no later event is delivered.
ValRegistryRaises ==
    /\ ValRunning
    /\ validate_events
    /\ registry_defect(vIn[vPos + 1]) # "none"
    /\ vPos' = vPos + 1
    /\ vOut' = [vOut EXCEPT !.raised = registry_defect(vIn[vPos + 1])]
    /\ UNCHANGED <<vIn, validate_events>>
    /\ UNCHANGED valOthers

\* normalize.py 287-289: `if not self._validate_event(...): continue`.
ValNormalizerSkips ==
    /\ ValRunning
    /\ validate_events => registry_defect(vIn[vPos + 1]) = "none"
    /\ ~_validate_event(vIn[vPos + 1])
    /\ vPos' = vPos + 1
    /\ vOut' = [vOut EXCEPT !.anoms = @ + 1]
    /\ UNCHANGED <<vIn, validate_events>>
    /\ UNCHANGED valOthers

\* The event reaches the normalizer's TOKEN / ENTER / EXIT handling.
ValNormalizerProcesses ==
    /\ ValRunning
    /\ validate_events => registry_defect(vIn[vPos + 1]) = "none"
    /\ _validate_event(vIn[vPos + 1])
    /\ vPos' = vPos + 1
    /\ vOut' = [vOut EXCEPT !.processed = Append(@, vIn[vPos + 1])]
    /\ UNCHANGED <<vIn, validate_events>>
    /\ UNCHANGED valOthers

\* An event that passes validation in the sense of the specification.
WellFormedEvent(ev) ==
    /\ ev.byte_start >= 0 /\ ev.byte_end >= ev.byte_start
    /\ ev.line_start >= 1 /\ ev.line_end >= ev.line_start
    /\ ev.type # ""

\* C23: an event that fails validation is skipped on its own: the events
\* processed are exactly the well-formed ones among those read so far, in
\* order, and the stream is not ended by a bad event.
C23_BadEventSkippedAlone ==
    /\ vOut.raised \in {"none", "idle"}
    /\ vOut.processed = SelectSeq(SubSeq(vIn, 1, vPos), WellFormedEvent)

-----------------------------------------------------------------------------
(***************************************************************************)
(* api.build_ucg_for_files: the per-file loop, builder by builder          *)
(***************************************************************************)

\* How many files one run is given.
MaxRunFiles == 3

\* Step1Config.max_file_bytes, scaled down.
max_file_bytes == 5

\* The builders of one file in the order the loop runs them.
RunBuilderOrder == <<"normalize", "cfg", "dfg", "symbols", "effects">>

RunBuilders == Range(RunBuilderOrder)

\* The parser libraries the process could import: libcst (py) and
\* tree_sitter (js), or libcst alone.
RunLibs == {{"py", "js"}, {"py"}}

\* FileMeta records of one repository. path and blob_sha stand for the
\* strings by their rank in string order (blob_sha 0: None, compared as "").
\* raises: the builder whose pass over this content raises, rows: the rows
\* a graph builder yields for it.
RunFile(path, blob_sha, is_text, size_bytes, lang, raises, rows) ==
    [path |-> path, blob_sha |-> blob_sha, is_text |-> is_text,
     size_bytes |-> size_bytes, lang |-> lang, raises |-> raises, rows |-> rows]

RunFiles ==
    {RunFile(1, 1, TRUE, 1, "py", "none", 2),
     RunFile(1, 2, TRUE, 1, "py", "cfg", 2),
     RunFile(2, 0, TRUE, 1, "py", "symbols", 1),
     RunFile(2, 1, FALSE, 1, "unknown", "none", 1),
     RunFile(3, 1, TRUE, 9, "py", "none", 1),
     RunFile(3, 2, TRUE, 1, "unknown", "none", 1),
     RunFile(4, 1, TRUE, 1, "js", "normalize", 1),
     RunFile(4, 2, TRUE, 1, "py", "dfg", 2)}

\* The input iterables: distinct files in any order.
RunInputs ==
    UNION {{q \in [1..n -> RunFiles] : \A a, b \in 1..n : a # b => q[a] # q[b]}
           : n \in 0..MaxRunFiles}

KeyOf(f) == <<f.path, f.blob_sha>>

\* key=lambda f: (f.path, f.blob_sha or ""), compared as tuples.
KeyLess(f, g) == f.path < g.path \/ (f.path = g.path /\ f.blob_sha < g.blob_sha)

\* A loop over the input in the order it was given.
files_as_given(fs) == fs

\* sorted(list(files), key=...): stable, ascending.
RECURSIVE files_sorted(_)
files_sorted(fs) ==
    IF fs = <<>> THEN <<>>
    ELSE LET done == files_sorted(SubSeq(fs, 1, Len(fs) - 1))
             last == fs[Len(fs)]
             at == Cardinality({j \in 1..Len(done) : ~KeyLess(last, done[j])})
         IN  SubSeq(done, 1, at) \o <<last>> \o SubSeq(done, at + 1, Len(done))

\* A row handed to the store: which append it goes through, the file it
\* belongs to, its position in the builder's output (0: the FILE node), and
\* for an anomaly row its detail.
RunRow(b, f, n) ==
    [table |-> b, path |-> f.path, blob_sha |-> f.blob_sha, n |-> n, detail |-> ""]

RunAnomaly(f, kind, detail) ==
    [path |-> f.path, blob_sha |-> f.blob_sha, kind |-> kind, detail |-> detail]

\* A guard that drops the file without a record.
skip_silently(f, kind, detail) == <<>>

\* The sink.emit of a guard or of a failed parse, before `continue`.
skip_anomaly(f, kind, detail) == <<RunAnomaly(f, kind, detail)>>

ExcDetail(b) ==
    CASE b = "normalize" -> "normalize-exception"
      [] b = "cfg" -> "cfg-exception"
      [] b = "dfg" -> "dfg-exception"
      [] b = "symbols" -> "symbols-exception"
      [] OTHER -> "effects-exception"

\* An except clause that records nothing.
builder_exception_silent(f, b) == <<>>

\* The except clause of one builder's try block.
builder_exception(f, b) == <<RunAnomaly(f, "UNKNOWN", ExcDetail(b))>>

\* _select_driver and _parse_file: no driver for a language without one; a
\* driver whose library is missing raises in info(), which _parse_file turns
\* into None; otherwise a ParseStream over a lazy event generator.
_parse_file(f, libs) ==
    IF f.lang = "unknown" THEN "no-driver"
    ELSE IF f.lang \notin libs THEN "parse-exception"
    ELSE "stream"

\* build_effects(fm, info, events, sink) is called as build_effects(ps, sink):
\* the call raises TypeError for every file. The other builders raise where
\* the content makes them.
BuilderRaises(f, b) == b = "effects" \/ f.raises = b

\* What a builder yields for a file when nothing raises. The events handed to
\* normalize are the list left by the materialization step, which is empty
\* (the constructor call consumes the generator and then raises TypeError on
\* the keyword `info`; the fallback lists the exhausted generator): normalize
\* yields the FILE node alone. The other builders parse again.
BuilderItems(f, b) ==
    IF b = "normalize" THEN <<RunRow(b, f, 0)>>
    ELSE IF b = "effects" THEN <<>>
    ELSE [n \in 1..f.rows |-> RunRow(b, f, n)]

\* The items yielded before the builder raised, or all of them.
BuilderYields(f, b) ==
    IF b = "effects" THEN <<>>
    ELSE IF BuilderRaises(f, b) THEN SubSeq(BuilderItems(f, b), 1, 1)
    ELSE BuilderItems(f, b)

\* The anomalies a builder emits itself: symbols.py 361-367 warns when only
\* the module symbol was emitted.
BuilderWarns(f, b) ==
    IF b = "symbols" /\ ~BuilderRaises(f, b) /\ f.rows = 1
    THEN <<RunAnomaly(f, "UNKNOWN", "SYMBOLS_BASELINE_ONLY")>>
    ELSE <<>>

\* The state of one call of build_ucg_for_files. reached_parse, parsed and
\* ran record which files reached _parse_file, which were counted as parsed,
\* and which builders were started on which file.
NewRun(fs, libs) ==
    [pc |-> "sort", files |-> fs, libs |-> libs, sorted |-> <<>>, i |-> 0,
     files_total |-> 0, files_parsed |-> 0,
     bufs |-> [b \in RunBuilders |-> <<>>],
     appended |-> <<>>, sink |-> <<>>,
     reached_parse |-> {}, parsed |-> {}, ran |-> {}]

\* flush_buffers(force) of the loop: each buffer that is due is appended to
\* the store and cleared.
RECURSIVE run_flush_buffers(_, _, _)
run_flush_buffers(r, k, force) ==
    IF k > Len(RunBuilderOrder) THEN r
    ELSE LET b == RunBuilderOrder[k] IN
         IF (force \/ Len(r.bufs[b]) >= batch) /\ r.bufs[b] # <<>>
         THEN run_flush_buffers([r EXCEPT !.appended = @ \o r.bufs[b],
                                          !.bufs[b] = <<>>], k + 1, force)
         ELSE run_flush_buffers(r, k + 1, force)

\* for item in build(ps, sink): buf.append(item); a full buffer calls
\* flush_buffers().
RECURSIVE run_feed(_, _, _)
run_feed(r, b, items) ==
    IF items = <<>> THEN r
    ELSE Only({
         run_feed(IF Len(added.bufs[b]) >= batch
                  THEN run_flush_buffers(added, 1, FALSE) ELSE added,
                  b, Tail(items))
         : added \in {[r EXCEPT !.bufs[b] = Append(@, Head(items))]} })

\* store.append_anomalies(list(sink.items())): the whole sink, each time.
AnomalyStoreRows(emitted) ==
    [k \in 1..Len(emitted) |->
        [table |-> "anomalies", path |-> emitted[k].path, blob_sha |-> emitted[k].blob_sha,
         n |-> k, detail |-> emitted[k].detail]]

run_sort(r) == [r EXCEPT !.sorted = files_sorted(r.files), !.pc = "file"]

\* Lines 157-183: the loop header, the two guards and the parse.
run_next_file(r) ==
    IF r.i = Len(r.sorted) THEN [r EXCEPT !.pc = "final"]
    ELSE LET f == r.sorted[r.i + 1]
             r1 == [r EXCEPT !.i = @ + 1, !.files_total = @ + 1]
         IN  IF ~f.is_text
             THEN [r1 EXCEPT !.sink = @ \o skip_anomaly(f, "BINARY_FILE", "binary-or-nontext")]
             ELSE IF f.size_bytes > max_file_bytes
             THEN [r1 EXCEPT !.sink = @ \o skip_anomaly(f, "MEMORY_LIMIT", "file-too-large")]
             ELSE IF _parse_file(f, r.libs) # "stream"
             THEN [r1 EXCEPT !.sink = @ \o skip_anomaly(f, "PARSE_FAILED", _parse_file(f, r.libs)),
                             !.reached_parse = @ \cup {KeyOf(f)}]
             ELSE [r1 EXCEPT !.files_parsed = @ + 1,
                             !.reached_parse = @ \cup {KeyOf(f)},
                             !.parsed = @ \cup {KeyOf(f)},
                             !.pc = "normalize"]

AfterBuilder(b) ==
    CASE b = "normalize" -> "cfg"
      [] b = "cfg" -> "dfg"
      [] b = "dfg" -> "symbols"
      [] b = "symbols" -> "effects"
      [] OTHER -> "periodic"

\* One builder's try block on the current file.
run_builder(r, b) ==
    LET f == r.sorted[r.i] IN
    Only({
    [fed EXCEPT !.sink = @ \o BuilderWarns(f, b)
                          \o (IF BuilderRaises(f, b) THEN builder_exception(f, b) ELSE <<>>),
                !.ran = @ \cup {<<KeyOf(f), b>>},
                !.pc = AfterBuilder(b)]
    : fed \in {run_feed(r, b, BuilderYields(f, b))} })

\* flush_buffers(force=True); store.flush(); store.append_anomalies(...).
run_flush_all(r) ==
    Only({ [fl EXCEPT !.appended = @ \o AnomalyStoreRows(fl.sink)]
           : fl \in {run_flush_buffers(r, 1, TRUE)} })

\* Lines 281-289: every flush_every_n_files-th file of the sorted list, when
\* the loop body reached its end.
run_periodic(r) ==
    IF r.i % flush_every_n_files = 0
    THEN [run_flush_all(r) EXCEPT !.pc = "file"]
    ELSE [r EXCEPT !.pc = "file"]

\* Lines 291-297: the final flush.
run_final(r) == [run_flush_all(r) EXCEPT !.pc = "done"]

run_step(r) ==
    CASE r.pc = "sort" -> run_sort(r)
      [] r.pc = "file" -> run_next_file(r)
      [] r.pc \in RunBuilders -> run_builder(r, r.pc)
      [] r.pc = "periodic" -> run_periodic(r)
      [] r.pc = "final" -> run_final(r)
      [] OTHER -> r

\* The whole call, from any point to its return.
RECURSIVE run_to_end(_)
run_to_end(r) == IF r.pc \in {"done", "idle"} THEN r ELSE run_to_end(run_step(r))

RunInit == run \in {NewRun(fs, libs) : fs \in RunInputs, libs \in RunLibs}

RunIdle == run = [NewRun(<<>>, {"py", "js"}) EXCEPT !.pc = "idle"]

RunSort ==
    /\ run.pc = "sort"
    /\ run' = run_sort(run)
    /\ UNCHANGED runOthers

RunNextFile ==
    /\ run.pc = "file"
    /\ run' = run_next_file(run)
    /\ UNCHANGED runOthers

RunNormalize ==
    /\ run.pc = "normalize"
    /\ run' = run_builder(run, "normalize")
    /\ UNCHANGED runOthers

RunCfg ==
    /\ run.pc = "cfg"
    /\ run' = run_builder(run, "cfg")
    /\ UNCHANGED runOthers

RunDfg ==
    /\ run.pc = "dfg"
    /\ run' = run_builder(run, "dfg")
    /\ UNCHANGED runOthers

RunSymbols ==
    /\ run.pc = "symbols"
    /\ run' = run_builder(run, "symbols")
    /\ UNCHANGED runOthers

RunEffects ==
    /\ run.pc = "effects"
    /\ run' = run_builder(run, "effects")
    /\ UNCHANGED runOthers

RunPeriodic ==
    /\ run.pc = "periodic"
    /\ run' = run_periodic(run)
    /\ UNCHANGED runOthers

RunFinal ==
    /\ run.pc = "final"
    /\ run' = run_final(run)
    /\ UNCHANGED runOthers

\* Every row of the run so far: appended to the store or still buffered.
RunRowsOut ==
    Range(run.appended) \cup UNION {Range(run.bufs[b]) : b \in RunBuilders}

RowsFor(key, b) ==
    {row \in RunRowsOut : row.table = b /\ <<row.path, row.blob_sha>> = key}

AnomaliesFor(key) ==
    {k \in 1..Len(run.sink) : <<run.sink[k].path, run.sink[k].blob_sha>> = key}

\* The files the loop has taken up so far, and the one whose builders are
\* still running.
TakenUp == {run.sorted[k] : k \in 1..run.i}

InProgress(f) ==
    /\ run.i >= 1
    /\ run.sorted[run.i] = f
    /\ run.pc \in RunBuilders

FileOf(key) == CHOOSE f \in RunFiles : KeyOf(f) = key

\* C21: every file that reached the parse step has its FILE node row among
\* the rows of the run, once the loop is past the file's normalize step, also
\* when the parse failed.
C21_FileNodeForEveryParsedFile ==
    \A key \in run.reached_parse :
        ~(InProgress(FileOf(key)) /\ run.pc = "normalize") =>
            \E row \in RowsFor(key, "normalize") : row.n = 0

ExceptionAnomalies(key, b) ==
    {k \in AnomaliesFor(key) :
        run.sink[k].kind = "UNKNOWN" /\ run.sink[k].detail = ExcDetail(b)}

\* C22: a builder that raised on a file left exactly one UNKNOWN anomaly for
\* that builder and file and no row beyond those it had yielded; a builder
\* that did not raise left none; every builder was run on every parsed file
\* the loop is done with, and the loop takes up every file of the input.
C22_BuilderFailureIsolated ==
    /\ \A pair \in run.ran :
          LET f == FileOf(pair[1])
              b == pair[2]
          IN  /\ Cardinality(ExceptionAnomalies(pair[1], b))
                    = IF BuilderRaises(f, b) THEN 1 ELSE 0
              /\ RowsFor(pair[1], b) = Range(BuilderYields(f, b))
    /\ \A key \in run.parsed :
          ~InProgress(FileOf(key)) => \A b \in RunBuilders : <<key, b>> \in run.ran
    /\ run.pc = "done" =>
          /\ run.files_total = Len(run.files)
          /\ TakenUp = Range(run.files)

\* The CFG builder raised on one file after a row; DFG and symbols rows of
\* the same file were emitted, and a later file got all its CFG rows.
C22_Witness ==
    /\ run.pc = "done"
    /\ \E key \in run.parsed :
          /\ FileOf(key).raises = "cfg"
          /\ Cardinality(ExceptionAnomalies(key, "cfg")) = 1
          /\ Cardinality(RowsFor(key, "cfg")) = 1
          /\ Cardinality(RowsFor(key, "dfg")) = 2
          /\ \E later \in run.parsed :
                /\ KeyLess(FileOf(key), FileOf(later))
                /\ Cardinality(RowsFor(later, "cfg")) = FileOf(later).rows

SkipDetails == {"binary-or-nontext", "file-too-large", "no-driver", "parse-exception"}

SkipAnomalies == {k \in 1..Len(run.sink) : run.sink[k].detail \in SkipDetails}

\* C25: every file the loop has taken up is counted in files_parsed or has an
\* anomaly with its path; files_total is files_parsed plus the files skipped
\* with an anomaly, and at the end it is the number of input files.
C25_NoFileSilentlyDropped ==
    /\ \A f \in TakenUp : KeyOf(f) \in run.parsed \/ AnomaliesFor(KeyOf(f)) # {}
    /\ run.files_parsed = Cardinality(run.parsed)
    /\ run.files_total = run.files_parsed + Cardinality(SkipAnomalies)
    /\ \A k \in SkipAnomalies : <<run.sink[k].path, run.sink[k].blob_sha>> \notin run.parsed
    /\ run.pc = "done" => run.files_total = Len(run.files) /\ TakenUp = Range(run.files)

\* A run over a binary file, a file without a driver and a parsed file.
C25_Witness ==
    /\ run.pc = "done"
    /\ run.files_total = 3
    /\ run.files_parsed = 1
    /\ \E k \in SkipAnomalies : run.sink[k].kind = "BINARY_FILE"
    /\ \E k \in SkipAnomalies : run.sink[k].kind = "PARSE_FAILED"

\* The input iterables holding the same files as fs.
Reorderings(fs) ==
    {q \in [1..Len(fs) -> Range(fs)] : Range(q) = Range(fs)}

Ascending(fs) == \A a, b \in 1..Len(fs) : a < b => KeyLess(fs[a], fs[b])

\* C26: the loop takes the files in ascending (path, blob_sha) order, a file's
\* builders all run before the next file is taken up, and a finished run has
\* appended the same sequence of rows as the run over any other order of the
\* same files.
C26_OrderIndependent ==
    /\ run.pc \notin {"sort", "idle"} => Ascending(run.sorted) /\ Range(run.sorted) = Range(run.files)
    /\ \A pair \in run.ran : \E k \in 1..run.i : KeyOf(run.sorted[k]) = pair[1]
    /\ \A k \in 1..(run.i - 1) :
          KeyOf(run.sorted[k]) \in run.parsed =>
              \A b \in RunBuilders : <<KeyOf(run.sorted[k]), b>> \in run.ran
    /\ run.pc = "done" =>
          \A q \in Reorderings(run.files) :
              run_to_end(NewRun(q, run.libs)).appended = run.appended

\* A finished run over three files given in descending order, two of them
\* with the same path, with rows of more than one file appended.
C26_Witness ==
    /\ run.pc = "done"
    /\ Len(run.files) = 3
    /\ \A a, b \in 1..3 : a < b => KeyLess(run.files[b], run.files[a])
    /\ \E a, b \in 1..3 : a # b /\ run.files[a].path = run.files[b].path
    /\ Cardinality({row.path : row \in {w \in Range(run.appended) : w.table = "cfg"}}) >= 2

\* The rows of the anomalies table that carry the k-th anomaly of the sink.
StoredCopies(k) ==
    {j \in 1..Len(run.appended) :
        run.appended[j].table = "anomalies" /\ run.appended[j].n = k}

\* C34: when the run has returned, every anomaly emitted during it is in the
\* anomalies table exactly once.
C34_EachAnomalyStoredOnce ==
    run.pc = "done" =>
        \A k \in 1..Len(run.sink) : Cardinality(StoredCopies(k)) = 1

-----------------------------------------------------------------------------
(***************************************************************************)
(* AnomalySink: discovery.AnomalySink and anomalies.AnomalySink under      *)
(* concurrent callers                                                      *)
(***************************************************************************)

\* Emit calls per thread and drains per run.
MaxEmits == 2

MaxDrains == 2

\* The registry's pool workers (_parse_one) and the orchestrating thread.
SinkThreads == {"worker1", "worker2", "main"}

\* The two classes named AnomalySink. Every module of the package imports
\* the one of discovery.py, and ParserRegistry builds that one when it is
\* given none; a caller can hand in either.
SinkClasses == {"discovery", "anomalies"}

\* __init__ of either class. lock: the thread holding _lock, "free", or
\* "absent" for the class that has none. total: _counts["total"]. emits,
\* unlocked and taken record the emit calls that returned, the updates made
\* by a thread not holding a lock, and what drain() or items() handed out.
NewSink(cls) ==
    [cls |-> cls,
     lock |-> IF cls = "anomalies" THEN "free" ELSE "absent",
     buffer |-> <<>>, total |-> 0,
     emits |-> 0, unlocked |-> 0, taken |-> <<>>, drains |-> 0]

\* An update of the sink by thread t: counted when t does not hold a lock.
Unlocked(s, t) == IF s.lock = t THEN s.unlocked ELSE s.unlocked + 1

\* discovery.py 63-64: self._items.append(a), one atomic list operation.
sink_emit_plain(s, t, a) ==
    [s EXCEPT !.buffer = Append(@, a), !.emits = @ + 1, !.unlocked = Unlocked(s, t)]

\* discovery.py 66-67: tuple(self._items); nothing is removed.
sink_items(s) == [s EXCEPT !.taken = s.buffer, !.drains = @ + 1]

\* anomalies.py 93-94: self._buffer.append(anomaly), inside `with self._lock`.
sink_emit_append(s, t, a) ==
    [s EXCEPT !.buffer = Append(@, a), !.unlocked = Unlocked(s, t)]

\* anomalies.py 95-97: the counters, inside the same `with`.
sink_emit_count(s, t) ==
    [s EXCEPT !.total = @ + 1, !.unlocked = Unlocked(s, t)]

\* anomalies.py 103-107: out = self._buffer; self._buffer = [].
sink_drain(s, t) ==
    [s EXCEPT !.taken = @ \o s.buffer, !.buffer = <<>>, !.drains = @ + 1,
              !.unlocked = Unlocked(s, t)]

\* The total a reader gets: counters()["total"], and 0 from a sink without
\* counters (api.py 330).
TotalCounter(s) == IF s.cls = "anomalies" THEN s.total ELSE 0

SinkInit ==
    /\ snk \in {NewSink(cls) : cls \in SinkClasses}
    /\ sthr = [t \in SinkThreads |-> [pc |-> "idle", emitted |-> 0]]

SinkIdle ==
    /\ snk = NewSink("discovery")
    /\ sthr = [t \in SinkThreads |-> [pc |-> "off", emitted |-> 0]]

NextAnomaly(t) == [by |-> t, n |-> sthr[t].emitted + 1]

\* A thread calls emit on the sink of discovery.py.
SinkEmitPlain(t) ==
    /\ snk.cls = "discovery"
    /\ sthr[t].pc = "idle"
    /\ sthr[t].emitted < MaxEmits
    /\ snk' = sink_emit_plain(snk, t, NextAnomaly(t))
    /\ sthr' = [sthr EXCEPT ![t].emitted = @ + 1]
    /\ UNCHANGED sinkOthers

\* The orchestrator reads items() of the sink of discovery.py.
SinkItems ==
    /\ snk.cls = "discovery"
    /\ sthr["main"].pc = "idle"
    /\ snk.drains < MaxDrains
    /\ snk' = sink_items(snk)
    /\ UNCHANGED sthr
    /\ UNCHANGED sinkOthers

\* `with self._lock:` entered by a thread that calls emit or drain: it waits
\* while another thread holds the lock.
SinkAcquire(t, op) ==
    /\ snk.cls = "anomalies"
    /\ sthr[t].pc = "idle"
    /\ snk.lock = "free"
    /\ IF op = "emit" THEN sthr[t].emitted < MaxEmits
       ELSE t = "main" /\ snk.drains < MaxDrains
    /\ snk' = [snk EXCEPT !.lock = t]
    /\ sthr' = [sthr EXCEPT ![t].pc = IF op = "emit" THEN "append" ELSE "drain"]
    /\ UNCHANGED sinkOthers

SinkEmitAppend(t) ==
    /\ sthr[t].pc = "append"
    /\ snk' = sink_emit_append(snk, t, NextAnomaly(t))
    /\ sthr' = [sthr EXCEPT ![t].pc = "count", ![t].emitted = @ + 1]
    /\ UNCHANGED sinkOthers

SinkEmitCount(t) ==
    /\ sthr[t].pc = "count"
    /\ snk' = sink_emit_count(snk, t)
    /\ sthr' = [sthr EXCEPT ![t].pc = "emit_exit"]
    /\ UNCHANGED sinkOthers

SinkDrain(t) ==
    /\ sthr[t].pc = "drain"
    /\ snk' = sink_drain(snk, t)
    /\ sthr' = [sthr EXCEPT ![t].pc = "drain_exit"]
    /\ UNCHANGED sinkOthers

\* The end of the `with` block: the lock is released and the call returns.
SinkRelease(t) ==
    /\ sthr[t].pc \in {"emit_exit", "drain_exit"}
    /\ snk' = [snk EXCEPT !.lock = "free",
                          !.emits = IF sthr[t].pc = "emit_exit" THEN @ + 1 ELSE @]
    /\ sthr' = [sthr EXCEPT ![t].pc = "idle"]
    /\ UNCHANGED sinkOthers

Quiescent == \A t \in SinkThreads : sthr[t].pc = "idle"

SinkHeld == Range(snk.buffer) \cup Range(snk.taken)

\* C24: every update of the shared sink is made by a thread holding its
\* mutex, and whenever no call is under way every emitted anomaly is held
\* exactly once, in the buffer or in what was drained, and the total counter
\* is the number of emit calls.
C24_SinkUpdatesUnderMutex ==
    /\ snk.unlocked = 0
    /\ Quiescent =>
          /\ Cardinality(SinkHeld) = snk.emits
          /\ snk.cls = "anomalies" => Len(snk.buffer) + Len(snk.taken) = snk.emits
          /\ TotalCounter(snk) = snk.emits

-----------------------------------------------------------------------------
(***************************************************************************)
(* _AdaptiveRowBuffer: one table buffer under UcgStore.append_anomalies    *)
(***************************************************************************)

\* Rows one append call brings, and flushes of one buffer.
MaxAppendRows == 3

MaxFlushes == 3

\* The characters the string columns of a row hold.
RowChars == {1, 3}

\* The buffer's _roll_rows, the 1000 rows between two size checks, the 128
\* rows _estimate_memory_usage samples and _max_bytes, all scaled down; the
\* constructor of the store keeps roll_rows at or above the check interval.
buffer_roll_rows == 5

check_every == 2

sample_rows == 2

buffer_max_bytes == 8

\* _AdaptiveRowBuffer.__init__. `unchecked` and `flushes` are no fields: the
\* rows added since the size was last estimated or the buffer last cleared,
\* and the flushes so far.
NewBuffer == [cols |-> <<>>, last_check |-> 0, unchecked |-> 0, flushes |-> 0]

\* _count: add and clear keep it equal to the length of the columns.
BufCount(b) == Len(b.cols)

\* add.
buffer_add(b, row) == [b EXCEPT !.cols = Append(@, row), !.unchecked = @ + 1]

RECURSIVE TotalChars(_)
TotalChars(col) == IF col = <<>> THEN 0 ELSE Head(col) + TotalChars(Tail(col))

\* _estimate_memory_usage: the average over the first rows, times the count.
estimate_memory_usage(b) ==
    IF BufCount(b) = 0 THEN 0
    ELSE LET sample == Min(sample_rows, BufCount(b))
         IN  (TotalChars(SubSeq(b.cols, 1, sample)) * BufCount(b)) \div sample

\* should_roll in full: the answer and the buffer it leaves.
buffer_should_roll(b) ==
    IF BufCount(b) >= buffer_roll_rows THEN [roll |-> TRUE, buf |-> b]
    ELSE IF BufCount(b) - b.last_check >= check_every
    THEN LET b1 == [b EXCEPT !.last_check = BufCount(b), !.unchecked = 0]
         IN  [roll |-> estimate_memory_usage(b1) > buffer_max_bytes, buf |-> b1]
    ELSE [roll |-> FALSE, buf |-> b]

\* clear: the columns and the count; _last_check stays.
buffer_clear(b) == [b EXCEPT !.cols = <<>>, !.unchecked = 0, !.flushes = @ + 1]

\* _flush_anomalies, the write succeeding.
flush_anomalies(b) == IF BufCount(b) = 0 THEN b ELSE buffer_clear(b)

\* append_anomalies: add, then flush when should_roll says so, row by row.
RECURSIVE append_anomalies(_, _)
append_anomalies(b, rows) ==
    IF rows = <<>> THEN b
    ELSE Only({ append_anomalies(IF r.roll THEN flush_anomalies(r.buf) ELSE r.buf,
                                 Tail(rows))
                : r \in {buffer_should_roll(buffer_add(b, Head(rows)))} })

AppendBatches == UNION {[1..n -> RowChars] : n \in 1..MaxAppendRows}

BufInit == rbuf = NewBuffer

BufIdle == rbuf = NewBuffer

\* One call of append_anomalies.
BufAppend(rows) ==
    /\ rbuf.flushes < MaxFlushes
    /\ rbuf' = append_anomalies(rbuf, rows)
    /\ UNCHANGED bufOthers

\* store.flush(): the buffer is written out whatever it holds.
BufFlush ==
    /\ rbuf.flushes < MaxFlushes
    /\ BufCount(rbuf) > 0
    /\ rbuf' = flush_anomalies(rbuf)
    /\ UNCHANGED bufOthers

\* C33: when an append call has returned, the buffer holds fewer than
\* roll_rows rows, and no more than one check interval of rows has been
\* added since its size was last estimated, whatever flushes came before.
C33_BufferFlushedInTime ==
    /\ BufCount(rbuf) < buffer_roll_rows
    /\ rbuf.unchecked <= check_every

-----------------------------------------------------------------------------
(***************************************************************************)
(* Specifications                                                          *)
(***************************************************************************)

RegNext ==
    \/ RegFill
    \/ RegDrainTop
    \/ RegPoll
    \/ RegRefill
    \/ RegShutdown
    \/ \E i \in DOMAIN task : WorkerStart(i)
    \/ \E i \in DOMAIN task : WorkerFinish(i)

RegistryInit == RegInit /\ DfgIdle /\ NormIdle /\ StoreIdle /\ ApiIdle /\ CfgIdle /\ SymIdle /\ ValIdle /\ RunIdle /\ SinkIdle /\ BufIdle

SpecRegistry == RegistryInit /\ [][RegNext]_vars

\* The steps of the generator's own thread.
RegGenerator == RegFill \/ RegDrainTop \/ RegPoll \/ RegRefill \/ RegShutdown

\* parse_files with the consumer iterating to the end and idle pool threads
\* taking queued tasks; a driver need not ever return.
SpecRegistryLive ==
    /\ RegistryInit
    /\ [][RegNext]_vars
    /\ WF_vars(RegGenerator)
    /\ WF_vars(\E i \in DOMAIN task : WorkerStart(i))

DfgNext ==
    \/ DfgEnterFunction
    \/ DfgEnterParams
    \/ DfgEnterAssign
    \/ \E n \in Names : DfgToken(n)
    \/ DfgExit
    \/ DfgOther

DfgBuildInit == DfgInit /\ RegIdle /\ NormIdle /\ StoreIdle /\ ApiIdle /\ CfgIdle /\ SymIdle /\ ValIdle /\ RunIdle /\ SinkIdle /\ BufIdle

SpecDfg == DfgBuildInit /\ [][DfgNext]_vars

NormNext ==
    \/ \E t \in NodeTypes, same \in BOOLEAN : NormEnter(t, same)
    \/ \E callee \in CalleeNames : NormExit(callee)
    \/ NormEof

NormalizeInit == NormInit /\ RegIdle /\ DfgIdle /\ StoreIdle /\ ApiIdle /\ CfgIdle /\ SymIdle /\ ValIdle /\ RunIdle /\ SinkIdle /\ BufIdle

SpecNormalize == NormalizeInit /\ [][NormNext]_vars

StoreNext ==
    \/ \E n \in 1..MaxBatch : \E ts \in [1..n -> Tables] : \E mode \in WriteModes :
           StoreAppend(ts, mode)
    \/ \E f \in Faults : StoreFlush(f[1], f[2])
    \/ \E f \in Faults : StoreFinalize(f[1], f[2])
    \/ \E rmtree_ok \in BOOLEAN : PublishMoveAside(rmtree_ok)
    \/ PublishRename

StoreRunInit == StoreInit /\ RegIdle /\ DfgIdle /\ NormIdle /\ ApiIdle /\ CfgIdle /\ SymIdle /\ ValIdle /\ RunIdle /\ SinkIdle /\ BufIdle

SpecStore == StoreRunInit /\ [][StoreNext]_vars

ApiNext ==
    \/ \E skipped \in BOOLEAN : ApiNextFile(skipped)
    \/ \E b \in Builders, n \in 0..MaxItems, mode \in {"ok", "io_error"} :
           ApiBuilder(b, n, mode)
    \/ \E fault \in FlushFaults : ApiPeriodic(fault)
    \/ \E fault \in FlushFaults : ApiFinal(fault)
    \/ \E bad \in Tables \cup {"none"} : ApiFinalize(bad)
    \/ \E rmtree_ok \in BOOLEAN : PublishMoveAside(rmtree_ok)
    \/ PublishRename

ApiRunInit == ApiInit /\ RegIdle /\ DfgIdle /\ NormIdle /\ CfgIdle /\ SymIdle /\ ValIdle /\ RunIdle /\ SinkIdle /\ BufIdle

SpecApi == ApiRunInit /\ [][ApiNext]_vars

CfgNext ==
    \/ \E t \in CfgContainers : CfgEnter(t)
    \/ \E t \in CfgLeaves : CfgLeaf(t)
    \/ \E gap \in {0, 1} : CfgExit(gap)
    \/ CfgEof

CfgBuildInit == CfgInit /\ RegIdle /\ DfgIdle /\ NormIdle /\ StoreIdle /\ ApiIdle /\ SymIdle /\ ValIdle /\ RunIdle /\ SinkIdle /\ BufIdle

SpecCfg == CfgBuildInit /\ [][CfgNext]_vars

SymNext ==
    \/ \E t \in SymNodeTypes : SymEnter(t)
    \/ \E n \in Names : SymToken(n)
    \/ SymExit
    \/ \E nm \in ImportNames : SymExitImport(nm)
    \/ \E ename \in ExportNames : SymExitExport(ename)
    \/ SymEof

SymBuildInit ==
    SymInit /\ RegIdle /\ DfgIdle /\ NormIdle /\ StoreIdle /\ ApiIdle /\ CfgIdle /\ ValIdle /\ RunIdle /\ SinkIdle /\ BufIdle

SpecSymbols == SymBuildInit /\ [][SymNext]_vars

ValNext ==
    \/ ValRegistryRaises
    \/ ValNormalizerSkips
    \/ ValNormalizerProcesses

ValidateInit ==
    ValInit /\ RegIdle /\ DfgIdle /\ NormIdle /\ StoreIdle /\ ApiIdle /\ CfgIdle /\ SymIdle /\ RunIdle /\ SinkIdle /\ BufIdle

SpecValidate == ValidateInit /\ [][ValNext]_vars


RunNext ==
    \/ RunSort
    \/ RunNextFile
    \/ RunNormalize
    \/ RunCfg
    \/ RunDfg
    \/ RunSymbols
    \/ RunEffects
    \/ RunPeriodic
    \/ RunFinal

FileLoopInit ==
    RunInit /\ RegIdle /\ DfgIdle /\ NormIdle /\ StoreIdle /\ ApiIdle /\ CfgIdle /\ SymIdle /\ ValIdle /\ SinkIdle /\ BufIdle

SpecRun == FileLoopInit /\ [][RunNext]_vars


SinkNext ==
    \/ \E t \in SinkThreads : SinkEmitPlain(t)
    \/ SinkItems
    \/ \E t \in SinkThreads, op \in {"emit", "drain"} : SinkAcquire(t, op)
    \/ \E t \in SinkThreads : SinkEmitAppend(t)
    \/ \E t \in SinkThreads : SinkEmitCount(t)
    \/ \E t \in SinkThreads : SinkDrain(t)
    \/ \E t \in SinkThreads : SinkRelease(t)

SinkRunInit ==
    SinkInit /\ RegIdle /\ DfgIdle /\ NormIdle /\ StoreIdle /\ ApiIdle /\ CfgIdle /\ SymIdle /\ ValIdle /\ RunIdle /\ BufIdle

SpecSink == SinkRunInit /\ [][SinkNext]_vars


BufNext ==
    \/ \E rows \in AppendBatches : BufAppend(rows)
    \/ BufFlush

BufferInit ==
    BufInit /\ RegIdle /\ DfgIdle /\ NormIdle /\ StoreIdle /\ ApiIdle /\ CfgIdle /\ SymIdle /\ ValIdle /\ RunIdle /\ SinkIdle

SpecBuffer == BufferInit /\ [][BufNext]_vars

=============================================================================
